---- MODULE Spec2Model ----
(***************************************************************************)
(* A model of the lucid-core retrieval engine (crates/lucid-core).         *)
(*                                                                         *)
(* f64 values are modelled as exact rationals <<numerator, denominator>>   *)
(* in lowest terms with a positive denominator; f64::NEG_INFINITY is the   *)
(* string "neg_inf".  Rounding is not modelled.                            *)
(***************************************************************************)
EXTENDS Integers, Sequences, FiniteSets, TLC

VARIABLES
    \* ---- spread_activation: arguments
    associations,       \* &[Association]
    seed_indices,       \* &[usize]
    seed_activations,   \* &[f64]
    config,             \* &SpreadingConfig
    depth,              \* usize
    \* ---- spread_activation: locals
    pc,                 \* position in spread_activation
    activations,        \* Vec<f64>, indexed 0..num_nodes-1
    visited,            \* HashSet<usize>
    visited_by_depth,   \* Vec<Vec<usize>>
    frontier,           \* Vec<usize>
    total_visited,      \* usize
    iter,               \* number of completed passes of the depth loop
    emissions,          \* the spread_amount values computed by the last pass
    \* ---- retrieve: arguments
    input,              \* &RetrievalInput
    rconfig,            \* &RetrievalConfig
    \* ---- retrieve: locals and result
    rpc,                \* position in retrieve
    boosted_similarities,
    probe_activations,
    initial_activations,
    seeds,              \* Vec<(usize, f64)>
    candidates,         \* Vec<RetrievalCandidate>, the value returned
    \* ---- a call of one of the pure functions
    call,               \* the function called and its arguments
    result,             \* the value it returned
    \* ---- a visual memory's consolidation
    consolidation,      \* VisualConsolidationState
    clock,              \* the time of the last call on it, ms
    \* ---- a call of process_video (lucid-perception)
    pipeline,           \* the two joined tasks and the value returned
    \* ---- the process-wide embedding model (lucid-napi)
    embedding           \* EMBEDDING_MODEL and the threads calling into it

spreadVars == <<associations, seed_indices, seed_activations, config, depth,
                pc, activations, visited, visited_by_depth, frontier,
                total_visited, iter, emissions>>

retrieveVars == <<input, rconfig, rpc, boosted_similarities, probe_activations,
                  initial_activations, seeds, candidates>>

callVars == <<call, result>>

consolidationVars == <<consolidation, clock>>

processVars == <<pipeline, embedding>>

vars == <<spreadVars, retrieveVars, callVars, consolidationVars, processVars>>

\* no call of spread_activation is modelled
SpreadIdle ==
    /\ associations = <<>> /\ seed_indices = <<>> /\ seed_activations = <<>>
    /\ config = <<>> /\ depth = 0 /\ pc = "idle" /\ activations = <<>>
    /\ visited = {} /\ visited_by_depth = <<>> /\ frontier = <<>>
    /\ total_visited = 0 /\ iter = 0 /\ emissions = <<>>

\* no call of retrieve is modelled
RetrieveIdle ==
    /\ input = <<>> /\ rconfig = <<>> /\ rpc = "idle"
    /\ boosted_similarities = <<>> /\ probe_activations = <<>>
    /\ initial_activations = <<>> /\ seeds = <<>> /\ candidates = <<>>

\* no call of a pure function is modelled
CallIdle == call = <<>> /\ result = <<>>

\* no visual memory is modelled
ConsolidationIdle == consolidation = <<>> /\ clock = 0

\* no call of process_video and no embedding model is modelled
ProcessIdle == pipeline = <<>> /\ embedding = <<>>

-----------------------------------------------------------------------------
(* Bounds of the model *)

\* num_nodes of the graph: the valid indices are 0 .. NumNodes-1
NumNodes == 3
\* longest association list
MaxEdges == 2
\* longest seed list
MaxSeeds == 2
\* largest depth argument
MaxDepth == 2

-----------------------------------------------------------------------------
(* Exact arithmetic standing for f64 *)

Abs(x) == IF x < 0 THEN -x ELSE x

RECURSIVE GCD(_, _)
GCD(a, b) == IF b = 0 THEN a ELSE GCD(b, a % b)

Rat(n, d) ==
    LET g == GCD(Abs(n), Abs(d))
        s == IF d < 0 THEN -1 ELSE 1
    IN  <<(s * n) \div g, (s * d) \div g>>

Zero == <<0, 1>>
One == <<1, 1>>

RAdd(a, b) ==
    LET g == GCD(a[2], b[2])
    IN  Rat(a[1] * (b[2] \div g) + b[1] * (a[2] \div g), (a[2] \div g) * b[2])

RNeg(a) == <<-a[1], a[2]>>

RSub(a, b) == RAdd(a, RNeg(b))

RMul(a, b) ==
    LET g1 == GCD(Abs(a[1]), b[2])
        g2 == GCD(Abs(b[1]), a[2])
    IN  IF a[1] = 0 \/ b[1] = 0 THEN Zero
        ELSE <<(a[1] \div g1) * (b[1] \div g2), (a[2] \div g2) * (b[2] \div g1)>>

\* a / n for a positive integer n
RDivInt(a, n) == RMul(a, <<1, n>>)

\* a < b by integer parts and then the reciprocals of the fractional parts
RECURSIVE RLt(_, _)
RLt(a, b) ==
    LET qa == a[1] \div a[2]
        qb == b[1] \div b[2]
        ra == a[1] % a[2]
        rb == b[1] % b[2]
    IN  IF qa # qb THEN qa < qb
        ELSE IF rb = 0 THEN FALSE
        ELSE IF ra = 0 THEN TRUE
        ELSE RLt(<<b[2], rb>>, <<a[2], ra>>)

RLe(a, b) == ~RLt(b, a)

RMin(a, b) == IF RLt(b, a) THEN b ELSE a

RMax(a, b) == IF RLt(a, b) THEN b ELSE a

RECURSIVE RPow(_, _)
RPow(a, k) == IF k = 0 THEN One ELSE RMul(a, RPow(a, k - 1))

-----------------------------------------------------------------------------
(* spreading.rs *)

Nodes == 0 .. (NumNodes - 1)

\* Index values a caller may pass: every valid index and one that is out of range
Indices == 0 .. NumNodes

\* SpreadingConfig::default(): decay_per_hop 0.7, minimum_activation 0.01, max_nodes 1000
DefaultDecayPerHop == <<7, 10>>
DefaultMinimumActivation == <<1, 100>>
DefaultMaxNodes == 1000

\* attenuation of backward spreading
BackwardAttenuation == <<7, 10>>

Association(s, t, f, b) ==
    [source |-> s, target |-> t, forward_strength |-> f, backward_strength |-> b]

RECURSIVE AdjacencyOf(_, _, _, _)
AdjacencyOf(assocs, n, node, fwd) ==
    IF assocs = <<>> THEN <<>>
    ELSE LET a == Head(assocs)
             rest == AdjacencyOf(Tail(assocs), n, node, fwd)
         IN  IF a.source < n /\ a.target < n
                /\ (IF fwd THEN a.source = node ELSE a.target = node)
             THEN <<IF fwd THEN <<a.target, a.forward_strength>>
                           ELSE <<a.source, a.backward_strength>>>> \o rest
             ELSE rest

build_adjacency(assocs, n) ==
    [forward  |-> [i \in 0 .. (n - 1) |-> AdjacencyOf(assocs, n, i, TRUE)],
     backward |-> [i \in 0 .. (n - 1) |-> AdjacencyOf(assocs, n, i, FALSE)]]

\* or_insert(0.0) += spread_amount on the pass's accumulator; a key that was
\* never inserted is equivalent to 0 when the accumulator is committed
Accumulate(next_activations, target_idx, spread_amount) ==
    [next_activations EXCEPT ![target_idx] = RAdd(@, spread_amount)]

\* fan = edges.len().max(1)
FanUnnormalised(edges) == 1
Fan(edges) == IF Len(edges) > 1 THEN Len(edges) ELSE 1

\* a spread_amount that is not attenuated along backward edges
SpreadAmountUnattenuated(source_activation, fan, strength, decay_per_hop, backward) ==
    RMul(RMul(RDivInt(source_activation, fan), strength), decay_per_hop)

\* spread_amount of one edge: forward, and backward with the 0.7 attenuation
SpreadAmount(source_activation, fan, strength, decay_per_hop, backward) ==
    LET fwd == RMul(RMul(RDivInt(source_activation, fan), strength), decay_per_hop)
    IN  IF backward THEN RMul(fwd, BackwardAttenuation) ELSE fwd

\* the activation a frontier node emits from: read from `activations`, which
\* the pass does not write until all frontier nodes are processed
SourceActivationEager(acts, st, source_idx) ==
    RAdd(acts[source_idx], st.next_activations[source_idx])
SourceActivation(acts, st, source_idx) == acts[source_idx]

\* one `for &(target_idx, strength) in edges` loop
RECURSIVE ProcessEdges(_, _, _, _, _, _, _)
ProcessEdges(edges, source_idx, source_activation, fan, backward, cfg, st) ==
    IF edges = <<>> THEN st
    ELSE IF st.total_visited >= cfg.max_nodes THEN st
    ELSE LET target_idx == Head(edges)[1]
             strength == Head(edges)[2]
             spread_amount == SpreadAmount(source_activation, fan, strength,
                                           cfg.decay_per_hop, backward)
             fresh == target_idx \notin st.visited
             st1 == [st EXCEPT
                        !.next_activations =
                            Accumulate(@, target_idx, spread_amount),
                        !.visited = @ \cup {target_idx},
                        !.next_frontier =
                            IF fresh THEN Append(@, target_idx) ELSE @,
                        !.total_visited = IF fresh THEN @ + 1 ELSE @,
                        !.emissions = Append(@,
                            [source |-> source_idx, target |-> target_idx,
                             amount |-> spread_amount,
                             source_activation |-> source_activation,
                             fan |-> fan, strength |-> strength,
                             backward |-> backward])]
         IN  ProcessEdges(Tail(edges), source_idx, source_activation, fan,
                          backward, cfg, st1)

\* the body of `for &source_idx in &frontier` for one frontier entry
ProcessSource(source_idx, acts, adj, cfg, st) ==
    LET source_activation == SourceActivation(acts, st, source_idx)
    IN  IF RLt(source_activation, cfg.minimum_activation) THEN st
        ELSE LET forward_edges == adj.forward[source_idx]
                 st1 == ProcessEdges(forward_edges, source_idx, source_activation,
                                     Fan(forward_edges), FALSE, cfg, st)
                 backward_edges == adj.backward[source_idx]
             IN  IF cfg.bidirectional
                 THEN ProcessEdges(backward_edges, source_idx, source_activation,
                                   Fan(backward_edges), TRUE, cfg, st1)
                 ELSE st1

\* `for &source_idx in &frontier`; indexing `activations[source_idx]` with an
\* index >= num_nodes panics
RECURSIVE ProcessFrontier(_, _, _, _, _)
ProcessFrontier(fr, acts, adj, cfg, st) ==
    IF fr = <<>> THEN st
    ELSE IF Head(fr) \notin DOMAIN acts THEN [st EXCEPT !.panicked = TRUE]
    ELSE ProcessFrontier(Tail(fr), acts, adj, cfg,
                         ProcessSource(Head(fr), acts, adj, cfg, st))

\* the accumulators of one pass of the depth loop, before any frontier entry
PassStart(nodes, vis, total) ==
    [next_frontier |-> <<>>,
     next_activations |-> [i \in nodes |-> Zero],
     visited |-> vis,
     total_visited |-> total,
     emissions |-> <<>>,
     panicked |-> FALSE]

\* `for (idx, activation) in next_activations { activations[idx] += activation }`
Commit(acts, next_activations) ==
    [i \in DOMAIN acts |-> RAdd(acts[i], next_activations[i])]

\* activations after the seed loop: a later entry of a repeated seed overwrites
RECURSIVE SeedActivations(_, _, _, _)
SeedActivations(acts, sidx, seed_acts, i) ==
    IF i > Len(sidx) THEN acts
    ELSE LET idx == sidx[i]
             a == IF i <= Len(seed_acts) THEN seed_acts[i] ELSE One
         IN  SeedActivations(IF idx \in DOMAIN acts
                             THEN [acts EXCEPT ![idx] = a] ELSE acts,
                             sidx, seed_acts, i + 1)

SeqToSet(s) == {s[i] : i \in DOMAIN s}

\* the locals after lines 111-124
EnterSpread(n, sidx, seed_acts) ==
    [pc |-> "loop",
     activations |-> SeedActivations([i \in 0 .. (n - 1) |-> Zero], sidx, seed_acts, 1),
     visited |-> SeqToSet(sidx),
     visited_by_depth |-> <<sidx>>,
     frontier |-> sidx,
     total_visited |-> Len(sidx),
     iter |-> 0,
     emissions |-> <<>>]

\* one pass of `for _ in 0..depth` that got past the max_nodes check
\* (lines 132-197), on the locals `loc`
DepthPass(loc, adj, cfg) ==
    LET st == ProcessFrontier(loc.frontier, loc.activations, adj, cfg,
                              PassStart(DOMAIN loc.activations, loc.visited,
                                        loc.total_visited))
    IN  IF st.panicked
        THEN [loc EXCEPT !.pc = "panicked", !.emissions = st.emissions]
        ELSE IF st.next_frontier = <<>>
        THEN \* break before the accumulator is committed
             [loc EXCEPT !.pc = "done",
                         !.visited = st.visited,
                         !.total_visited = st.total_visited,
                         !.emissions = st.emissions]
        ELSE [loc EXCEPT !.activations = Commit(@, st.next_activations),
                         !.visited = st.visited,
                         !.total_visited = st.total_visited,
                         !.visited_by_depth = Append(@, st.next_frontier),
                         !.frontier = st.next_frontier,
                         !.iter = @ + 1,
                         !.emissions = st.emissions]

\* the depth loop run to its end
RECURSIVE SpreadLoop(_, _, _, _)
SpreadLoop(loc, adj, cfg, d) ==
    IF loc.pc # "loop" THEN loc
    ELSE IF loc.iter >= d \/ loc.total_visited >= cfg.max_nodes
    THEN [loc EXCEPT !.pc = "done"]
    ELSE SpreadLoop(DepthPass(loc, adj, cfg), adj, cfg, d)

\* the whole call; pc = "panicked" stands for a call that does not return
spread_activation(n, assocs, sidx, seed_acts, cfg, d) ==
    SpreadLoop(EnterSpread(n, sidx, seed_acts), build_adjacency(assocs, n), cfg, d)

-----------------------------------------------------------------------------
(* Arguments of spread_activation explored by the model *)

Half == <<1, 2>>
\* below minimum_activation: such a seed does not propagate
Tiny == <<1, 200>>

SeqsUpTo(S, n) == UNION {[1 .. k -> S] : k \in 0 .. n}

\* The edges a caller may pass: a chain 0 -> 1 -> 2, a back edge 2 -> 1, one
\* edge with an out-of-range target and one with an out-of-range source;
\* strengths are in [0, 1], forward and backward differ
EdgePool ==
    {Association(0, 1, One, Half),
     Association(1, 2, One, Half),
     Association(2, 1, Half, One),
     Association(0, NumNodes, One, Half),
     Association(NumNodes, 0, Half, One)}

\* The seed indices a caller may pass: two valid nodes and one out of range
SeedPool == {0, 1, NumNodes}

\* seed_activations may be shorter than seed_indices (missing entries are 1.0)
SeedActivationLists == {<<>>, <<Half, Tiny>>}

SpreadingConfigs ==
    [decay_per_hop : {DefaultDecayPerHop},
     minimum_activation : {DefaultMinimumActivation},
     max_nodes : {1, 2, DefaultMaxNodes},
     bidirectional : BOOLEAN]

-----------------------------------------------------------------------------
(* spread_activation as a state machine: one step per pass of the depth loop *)

Locals ==
    [pc |-> pc, activations |-> activations, visited |-> visited,
     visited_by_depth |-> visited_by_depth, frontier |-> frontier,
     total_visited |-> total_visited, iter |-> iter, emissions |-> emissions]

SetLocals(loc) ==
    /\ pc' = loc.pc
    /\ activations' = loc.activations
    /\ visited' = loc.visited
    /\ visited_by_depth' = loc.visited_by_depth
    /\ frontier' = loc.frontier
    /\ total_visited' = loc.total_visited
    /\ iter' = loc.iter
    /\ emissions' = loc.emissions

\* the call has been entered: the locals are those after lines 111-124
Entered ==
    LET loc == EnterSpread(NumNodes, seed_indices, seed_activations)
    IN  /\ pc = loc.pc
        /\ activations = loc.activations
        /\ visited = loc.visited
        /\ visited_by_depth = loc.visited_by_depth
        /\ frontier = loc.frontier
        /\ total_visited = loc.total_visited
        /\ iter = loc.iter
        /\ emissions = loc.emissions

InitSpread ==
    /\ associations \in SeqsUpTo(EdgePool, MaxEdges)
    /\ seed_indices \in SeqsUpTo(SeedPool, MaxSeeds)
    /\ seed_activations \in SeedActivationLists
    /\ config \in SpreadingConfigs
    /\ depth \in 0 .. MaxDepth
    /\ Entered
    /\ RetrieveIdle
    /\ CallIdle
    /\ ConsolidationIdle
    /\ ProcessIdle

\* one pass of `for _ in 0..depth` that gets past the max_nodes check
Pass ==
    /\ pc = "loop"
    /\ iter < depth
    /\ total_visited < config.max_nodes
    /\ SetLocals(DepthPass(Locals, build_adjacency(associations, NumNodes), config))
    /\ UNCHANGED <<associations, seed_indices, seed_activations, config, depth>>
    /\ UNCHANGED <<retrieveVars, callVars, consolidationVars, processVars>>

\* the loop ends (depth passes done, or the max_nodes check breaks) and the
\* SpreadingResult {activations, visited_by_depth} is returned
Return ==
    /\ pc = "loop"
    /\ (iter >= depth \/ total_visited >= config.max_nodes)
    /\ pc' = "done"
    /\ UNCHANGED <<associations, seed_indices, seed_activations, config, depth,
                   activations, visited, visited_by_depth, frontier,
                   total_visited, iter, emissions>>
    /\ UNCHANGED <<retrieveVars, callVars, consolidationVars, processVars>>

NextSpread == Pass \/ Return

Spec == InitSpread /\ [][NextSpread]_vars

-----------------------------------------------------------------------------
(* Properties of spread_activation *)

RECURSIVE Flatten(_)
Flatten(levels) == IF levels = <<>> THEN <<>> ELSE Head(levels) \o Flatten(Tail(levels))

NoRepeats(q) == \A i, j \in DOMAIN q : i # j => q[i] # q[j]

\* what the emissions of one pass add up to for node i
RECURSIVE Contribution(_, _)
Contribution(ems, i) ==
    IF ems = <<>> THEN Zero
    ELSE RAdd(IF Head(ems).target = i THEN Head(ems).amount ELSE Zero,
              Contribution(Tail(ems), i))

\* the association list without the edges that have an out-of-range end
InRangeAssociations(assocs, n) ==
    SelectSeq(assocs, LAMBDA a : a.source < n /\ a.target < n)

\* the seed list without the out-of-range seeds, as <<index, activation>> pairs
RECURSIVE InRangeSeeds(_, _, _, _)
InRangeSeeds(sidx, seed_acts, n, i) ==
    IF i > Len(sidx) THEN <<>>
    ELSE LET a == IF i <= Len(seed_acts) THEN seed_acts[i] ELSE One
             rest == InRangeSeeds(sidx, seed_acts, n, i + 1)
         IN  IF sidx[i] < n THEN <<<<sidx[i], a>>>> \o rest ELSE rest

SpreadWithoutOutOfRange ==
    LET kept == InRangeSeeds(seed_indices, seed_activations, NumNodes, 1)
    IN  spread_activation(NumNodes,
                          InRangeAssociations(associations, NumNodes),
                          [k \in DOMAIN kept |-> kept[k][1]],
                          [k \in DOMAIN kept |-> kept[k][2]],
                          config, depth)

\* C1: spread_activation never fails on out-of-range indices: the call
\* returns normally, and the activations it returns are those of the call
\* with the out-of-range edges and seeds removed.
C1_OutOfRangeSkipped ==
    /\ pc # "panicked"
    /\ pc = "done" => activations = SpreadWithoutOutOfRange.activations

\* C2: each node is enqueued at most once: no node index appears more than
\* once across all levels of visited_by_depth.
C2_EnqueuedAtMostOnce == NoRepeats(Flatten(visited_by_depth))

\* C3: in every pass of the depth loop in which a frontier node propagates,
\* every contribution accumulated during the pass is added to the activation
\* of its target, whether or not the pass reached a new node.
C3_ContributionsCommitted ==
    [][(Pass /\ pc' # "panicked") =>
          \A i \in Nodes :
              activations'[i] = RAdd(activations[i], Contribution(emissions', i))]_vars

\* C4: spreading is synchronous per layer: every amount emitted in a pass is
\* computed from the source's activation as it stood when the pass began
\* (never from what other frontier nodes accumulated during the pass), and a
\* pass that opens a new layer has committed all its contributions, so the
\* next layer's emissions are computed from them.
C4_SynchronousPerLayer ==
    [][Pass =>
          /\ \A k \in DOMAIN emissions' :
                 emissions'[k].source_activation = activations[emissions'[k].source]
          /\ Len(visited_by_depth') > Len(visited_by_depth) =>
                 \A i \in Nodes :
                     activations'[i] =
                         RAdd(activations[i], Contribution(emissions', i))]_vars

\* C4 witness: a pass has run in which a frontier node emitted after another
\* frontier node of the same pass had contributed to it, and the pass opened
\* a new layer
C4_Witness ==
    /\ pc = "loop"
    /\ iter >= 1
    /\ \E k, l \in DOMAIN emissions :
           /\ k < l
           /\ emissions[k].target = emissions[l].source
           /\ emissions[k].source # emissions[l].source
           /\ emissions[k].amount # Zero

\* C5: max_nodes caps the visited set: the number of nodes recorded as
\* visited never exceeds config.max_nodes.
C5_VisitedCapped == Cardinality(visited) <= config.max_nodes

-----------------------------------------------------------------------------
(* Conservation of the spread mass *)

\* no association points into a seed
SeedsUntargeted ==
    \A k \in DOMAIN associations : associations[k].target \notin SeqToSet(seed_indices)

\* calls with in-range seeds and no edge into a seed; the association list may
\* be one longer than in InitSpread
InitConservation ==
    /\ seed_indices \in SeqsUpTo({0, 1}, MaxSeeds) \ {<<>>}
    /\ associations \in SeqsUpTo(EdgePool, MaxEdges + 1)
    /\ SeedsUntargeted
    /\ seed_activations \in SeedActivationLists
    /\ config \in SpreadingConfigs
    /\ depth \in 0 .. MaxDepth
    /\ Entered
    /\ RetrieveIdle
    /\ CallIdle
    /\ ConsolidationIdle
    /\ ProcessIdle

SpecConservation == InitConservation /\ [][NextSpread]_vars

RECURSIVE SumOver(_, _)
SumOver(q, acts) ==
    IF q = <<>> THEN Zero ELSE RAdd(acts[Head(q)], SumOver(Tail(q), acts))

\* the seed mass: the activation each entry of the seed list starts with
SeedMass ==
    SumOver(seed_indices,
            EnterSpread(NumNodes, seed_indices, seed_activations).activations)

\* the depth of the layer opened last, and the activation delivered to it
LastDepth == Len(visited_by_depth) - 1
LastLayerSum == SumOver(visited_by_depth[Len(visited_by_depth)], activations)

\* what one node can emit per unit of activation and hop: decay_per_hop
\* forward, and 0.7 * decay_per_hop more along backward edges
HopFactor ==
    IF config.bidirectional
    THEN RMul(config.decay_per_hop, RAdd(One, BackwardAttenuation))
    ELSE config.decay_per_hop

\* C6 as stated: with decay_per_hop < 1 and no edges into seeds, the
\* activation delivered to the nodes first reached at depth d >= 1 is
\* strictly less than (seed mass) * decay_per_hop^d.
C6_StrictConservation ==
    (pc # "panicked" /\ LastDepth >= 1 /\ SeedsUntargeted
        /\ RLt(config.decay_per_hop, One))
    => RLt(LastLayerSum, RMul(SeedMass, RPow(config.decay_per_hop, LastDepth)))

\* C6 amended: with decay_per_hop < 1, non-negative seed activations and no
\* edges into seeds, the activation delivered to the nodes first reached at
\* depth d >= 1 is at most (seed mass) * h^d, where h = decay_per_hop when
\* spreading is forward only and h = 1.7 * decay_per_hop when bidirectional.
C6_Conservation ==
    (pc # "panicked" /\ LastDepth >= 1 /\ SeedsUntargeted
        /\ RLt(config.decay_per_hop, One))
    => RLe(LastLayerSum, RMul(SeedMass, RPow(HopFactor, LastDepth)))

\* C6 witness: a bidirectional run delivered more than
\* (seed mass) * decay_per_hop^2 to the layer at depth 2
C6_Witness ==
    /\ pc # "panicked"
    /\ SeedsUntargeted
    /\ config.bidirectional
    /\ LastDepth = 2
    /\ RLt(RMul(SeedMass, RPow(config.decay_per_hop, 2)), LastLayerSum)

-----------------------------------------------------------------------------
(* activation.rs *)

\* f64::NEG_INFINITY
NegInf == "neg_inf"

\* x.sqrt() of an integer that is a perfect square
ISqrt(x) == CHOOSE r \in 0 .. x : r * r = x

RECURSIVE Dot(_, _)
Dot(a, b) ==
    IF a = <<>> THEN 0 ELSE Head(a) * Head(b) + Dot(Tail(a), Tail(b))

\* Iterator::collect into a Vec: every element is computed once, in order
Collect(f) == SubSeq(f, 1, Len(f))

\* cosine of one trace against the probe, the probe norm being pre-computed
CosineAgainst(probe, probe_norm, trace) ==
    IF Len(trace) # Len(probe) THEN Zero
    ELSE LET trace_norm == ISqrt(Dot(trace, trace))
         IN  IF trace_norm = 0 THEN Zero
             ELSE Rat(Dot(probe, trace), probe_norm * trace_norm)

cosine_similarity_batch(probe, traces) ==
    LET probe_norm == ISqrt(Dot(probe, probe))
    IN  IF probe_norm = 0 THEN [k \in DOMAIN traces |-> Zero]
        ELSE Collect([k \in DOMAIN traces |->
                         CosineAgainst(probe, probe_norm, traces[k])])

\* s.powi(3)
nonlinear_activation(similarity) == RMul(similarity, RMul(similarity, similarity))

nonlinear_activation_batch(similarities) ==
    Collect([k \in DOMAIN similarities |-> nonlinear_activation(similarities[k])])

\* x.powf(-d) for the decay rates 0.5 and 1.0 and x a square of a rational
PowNeg(x, d) ==
    IF d = One THEN <<x[2], x[1]>> ELSE <<ISqrt(x[2]), ISqrt(x[1])>>

\* x.ln(), to two decimals, on the sums the model produces
Ln(x) ==
    CASE x = <<1, 1>> -> Zero
      [] x = <<1, 2>> -> Rat(-69, 100)
      [] x = <<1, 4>> -> Rat(-139, 100)
      [] x = <<3, 2>> -> Rat(41, 100)
      [] x = <<5, 4>> -> Rat(22, 100)

RECURSIVE AccessSum(_, _, _)
AccessSum(timestamps, now, d) ==
    IF timestamps = <<>> THEN Zero
    ELSE LET age_ms == IF now - Head(timestamps) > 1000
                       THEN now - Head(timestamps) ELSE 1000
         IN  RAdd(PowNeg(Rat(age_ms, 1000), d), AccessSum(Tail(timestamps), now, d))

compute_base_level(access_timestamps_ms, current_time_ms, decay_rate) ==
    IF access_timestamps_ms = <<>> THEN NegInf
    ELSE Ln(AccessSum(access_timestamps_ms, current_time_ms, decay_rate))

\* base_level.is_finite() ? base_level : -10.0
EffectiveBase(base_level) == IF base_level = NegInf THEN <<-10, 1>> ELSE base_level

\* ((base + 10.0) / 10.0).clamp(0.0, 1.0)
RecencyBoost(base) ==
    RMax(Zero, RMin(One, RDivInt(RAdd(base, <<10, 1>>), 10)))

\* 1.0 + (emotional - 0.5)
EmotionalMultiplier(emotional_weight) == RAdd(One, RSub(emotional_weight, Half))

\* an additive combination: base level, probe and spreading summed
combine_additive(base_level, probe_activation, spreading_activation, emotional_weight) ==
    [base_level |-> EffectiveBase(base_level),
     probe_activation |-> RMul(probe_activation, EmotionalMultiplier(emotional_weight)),
     spreading |-> spreading_activation,
     emotional_weight |-> emotional_weight,
     total |-> RAdd(RAdd(EffectiveBase(base_level),
                         RMul(probe_activation, EmotionalMultiplier(emotional_weight))),
                    spreading_activation)]

combine_activations(base_level, probe_activation, spreading_activation, emotional_weight) ==
    LET effective_base == EffectiveBase(base_level)
        modulated_probe == RMul(probe_activation, EmotionalMultiplier(emotional_weight))
        probe_with_recency == RMul(modulated_probe, RAdd(One, RecencyBoost(effective_base)))
    IN  [base_level |-> effective_base,
         probe_activation |-> modulated_probe,
         spreading |-> spreading_activation,
         emotional_weight |-> emotional_weight,
         total |-> RAdd(probe_with_recency, spreading_activation)]

\* 1 / (1 + exp(exponent)) is kept as its exponent (threshold - total) / noise:
\* the logistic is strictly decreasing in it, so equal exponents are equal
\* probabilities
retrieval_probability(total_activation, activation_threshold, noise_parameter) ==
    [exponent |-> RMul(RSub(activation_threshold, total_activation),
                       <<noise_parameter[2], noise_parameter[1]>>)]

\* ln((1 - p) / p) to four decimals, for the min_probability values of the model
LnOddsAgainst(p) ==
    CASE p = <<1, 10>> -> Rat(21972, 10000)

\* probability < min_probability: never for 0, else exp(exponent) > (1 - p) / p
ProbabilityBelow(probability, min_probability) ==
    IF min_probability = Zero THEN FALSE
    ELSE RLt(LnOddsAgainst(min_probability), probability.exponent)

-----------------------------------------------------------------------------
(* retrieval.rs *)

\* a lookup that yields 0.0 for a missing entry
GetOrZero(arr, i, default) == IF (i + 1) \in DOMAIN arr THEN arr[i + 1] ELSE Zero

\* slice.get(i).copied().unwrap_or(default), i counted from 0
Get(arr, i, default) == IF (i + 1) \in DOMAIN arr THEN arr[i + 1] ELSE default

\* RetrievalConfig::default()
DefaultRetrievalConfig ==
    [decay_rate |-> Half,
     activation_threshold |-> <<3, 10>>,
     noise_parameter |-> <<1, 10>>,
     spreading_depth |-> 3,
     spreading_decay |-> <<7, 10>>,
     min_probability |-> <<1, 10>>,
     max_results |-> 10,
     bidirectional |-> TRUE]

\* (sim * boost).min(1.0)
BoostedSimilarity(sim, boost) == RMin(RMul(sim, boost), One)

\* probe * emotional_multiplier * (1 + recency_boost)
InitialActivation(base_level, probe_activation, emotional) ==
    RMul(RMul(probe_activation, EmotionalMultiplier(emotional)),
         RAdd(One, RecencyBoost(EffectiveBase(base_level))))

\* minimum similarity threshold of the seed filter
SeedThreshold == <<1, 10>>

\* seeds.truncate(5)
SeedCap == 5

\* a seed filter on the initial activation instead of the probe activation
EligibleByInitial(probe_activation, initial_activation) ==
    RLt(SeedThreshold, initial_activation)

\* .filter(|(i, _)| probe_activations[*i] > 0.1)
Eligible(probe_activation, initial_activation) ==
    RLt(SeedThreshold, probe_activation)

\* a comparator that also moves an element in front of its equals
ComesAfterOrTies(a_key, b_key) == RLe(a_key, b_key)

\* b.partial_cmp(&a) == Greater: a is ordered after b
ComesAfter(a_key, b_key) == RLt(a_key, b_key)

\* stable insertion of position x into the already sorted positions
RECURSIVE InsertStable(_, _, _)
InsertStable(sorted, x, keys) ==
    IF sorted = <<>> THEN <<x>>
    ELSE IF ComesAfter(keys[Head(sorted)], keys[x]) THEN <<x>> \o sorted
    ELSE <<Head(sorted)>> \o InsertStable(Tail(sorted), x, keys)

RECURSIVE SortedPositions(_, _)
SortedPositions(keys, k) ==
    IF k = 0 THEN <<>> ELSE InsertStable(SortedPositions(keys, k - 1), k, keys)

\* slice::sort_by (stable) on descending keys, as the permutation it applies
sort_by_descending(keys) == SortedPositions(keys, Len(keys))

\* Vec::truncate
Truncate(q, len) == IF Len(q) > len THEN SubSeq(q, 1, len) ELSE q

\* step 6: (index, initial activation) of the eligible traces, best first
FindSeeds(probe_acts, initial) ==
    LET unsorted == SelectSeq([k \in DOMAIN initial |-> <<k - 1, initial[k]>>],
                              LAMBDA p : Eligible(probe_acts[p[1] + 1], p[2]))
        order == sort_by_descending(Collect([k \in DOMAIN unsorted |-> unsorted[k][2]]))
    IN  Truncate(Collect([k \in DOMAIN order |-> unsorted[order[k]]]), SeedCap)

\* the SpreadingConfig built in step 7
SpreadingConfigOf(cfg) ==
    [decay_per_hop |-> cfg.spreading_decay,
     minimum_activation |-> <<1, 100>>,
     max_nodes |-> 1000,
     bidirectional |-> cfg.bidirectional]

\* step 7: spreading_result.activations
SpreadingResult(n, assocs, sds, cfg) ==
    IF sds # <<>> /\ cfg.spreading_depth > 0
    THEN spread_activation(n, assocs,
                           Collect([k \in DOMAIN sds |-> sds[k][1]]),
                           Collect([k \in DOMAIN sds |-> sds[k][2]]),
                           SpreadingConfigOf(cfg), cfg.spreading_depth).activations
    ELSE [i \in 0 .. (n - 1) |-> Zero]

\* the RetrievalCandidate of trace i, before the probability filter
Candidate(i, base_level, probe_activation, spreading, emotional_weight, cfg) ==
    LET breakdown == combine_activations(base_level, probe_activation, spreading,
                                         emotional_weight)
    IN  [index |-> i,
         base_level |-> breakdown.base_level,
         probe_activation |-> breakdown.probe_activation,
         spreading |-> breakdown.spreading,
         emotional_weight |-> breakdown.emotional_weight,
         total_activation |-> breakdown.total,
         probability |-> retrieval_probability(breakdown.total,
                                               cfg.activation_threshold,
                                               cfg.noise_parameter)]

\* steps 8 and 9
RankCandidates(n, base_levels, probe_acts, spreading, inp, cfg) ==
    LET all == [k \in 1 .. n |->
                   Candidate(k - 1, EffectiveBase(base_levels[k]), probe_acts[k],
                             spreading[k - 1],
                             Get(inp.emotional_weights, k - 1, Half), cfg)]
        kept == SelectSeq(all, LAMBDA c :
                    ~ProbabilityBelow(c.probability, cfg.min_probability))
        order == sort_by_descending(Collect([k \in DOMAIN kept |->
                                                kept[k].total_activation]))
    IN  Truncate(Collect([k \in DOMAIN order |-> kept[order[k]]]), cfg.max_results)

\* the whole call; pc = "panicked" stands for a call that does not return
retrieve(inp, cfg) ==
    LET n == Len(inp.memory_embeddings)
        similarities == cosine_similarity_batch(inp.probe_embedding,
                                                inp.memory_embeddings)
        boosted == Collect([k \in 1 .. n |->
                       BoostedSimilarity(similarities[k],
                                         Get(inp.working_memory_boosts, k - 1, One))])
        probe_acts == nonlinear_activation_batch(boosted)
        base_levels == Collect([k \in DOMAIN inp.access_histories_ms |->
                           compute_base_level(inp.access_histories_ms[k],
                                              inp.current_time_ms,
                                              Get(inp.decay_rates, k - 1, cfg.decay_rate))])
        initial == Collect([k \in 1 .. n |->
                       InitialActivation(base_levels[k], probe_acts[k],
                                         Get(inp.emotional_weights, k - 1, Half))])
        sds == FindSeeds(probe_acts, initial)
        spreading == SpreadingResult(n, inp.associations, sds, cfg)
    IN  IF n = 0
        THEN [pc |-> "done", boosted_similarities |-> <<>>,
              probe_activations |-> <<>>, initial_activations |-> <<>>,
              seeds |-> <<>>, candidates |-> <<>>]
        ELSE IF Len(inp.access_histories_ms) < n
        THEN \* base_levels[i] is indexed out of bounds in step 5
             [pc |-> "panicked", boosted_similarities |-> boosted,
              probe_activations |-> probe_acts, initial_activations |-> <<>>,
              seeds |-> <<>>, candidates |-> <<>>]
        ELSE [pc |-> "done", boosted_similarities |-> boosted,
              probe_activations |-> probe_acts, initial_activations |-> initial,
              seeds |-> sds,
              candidates |-> RankCandidates(n, base_levels, probe_acts, spreading,
                                            inp, cfg)]

-----------------------------------------------------------------------------
(* Arguments of retrieve explored by the model *)

\* most traces of a store
MaxTraces == 3
\* traces beyond the seed cap
MaxExtraTraces == 1

Two == <<2, 1>>

\* the probe, and traces at cosine 1, 3/5 and -1 to it and one without norm
ProbeEmbedding == <<1, 0>>
EmbeddingPool == {<<1, 0>>, <<3, 4>>, <<-1, 0>>, <<0, 0>>}

Repeat(x, n) == [k \in 1 .. n |-> x]

\* access histories of n traces at time now: none accessed, all accessed
\* within the last second, accesses 1 s and 4 s ago, and a list one short
AccessHistories(n, now) ==
    {Repeat(<<>>, n),
     Repeat(<<now - 500>>, n),
     [k \in 1 .. n |-> IF k % 2 = 1 THEN <<now - 4000>>
                                    ELSE <<now - 1000, now - 4000>>],
     Repeat(<<now - 1000>>, n - 1)}

EmotionalWeights(n) == {<<>>, Repeat(One, n), <<Zero>>}

\* no decay rates, or one for the first trace only
DecayRates(n) == {<<>>, <<One>>}

\* no boosts, or one for the first trace only
WorkingMemoryBoosts(n) == {<<>>, <<Two>>}

AssociationLists == {<<>>, <<Association(0, 1, One, Half)>>}

RetrievalInputs(n, pool) ==
    [probe_embedding : {ProbeEmbedding},
     memory_embeddings : [1 .. n -> pool],
     access_histories_ms : AccessHistories(n, 1000000),
     emotional_weights : EmotionalWeights(n),
     decay_rates : DecayRates(n),
     working_memory_boosts : WorkingMemoryBoosts(n),
     associations : AssociationLists,
     current_time_ms : {1000000}]

\* the default configuration, and one that keeps every trace but the best two
RetrievalConfigs ==
    {DefaultRetrievalConfig,
     [DefaultRetrievalConfig EXCEPT !.min_probability = Zero, !.max_results = 2]}

-----------------------------------------------------------------------------
(* State machine of retrieve *)

Called ==
    /\ rpc = "call"
    /\ boosted_similarities = <<>>
    /\ probe_activations = <<>>
    /\ initial_activations = <<>>
    /\ seeds = <<>>
    /\ candidates = <<>>

InitRetrieve ==
    /\ \E n \in 1 .. MaxTraces : input \in RetrievalInputs(n, EmbeddingPool)
    /\ rconfig \in RetrievalConfigs
    /\ Called
    /\ SpreadIdle
    /\ CallIdle
    /\ ConsolidationIdle
    /\ ProcessIdle

\* retrieve(input, config), from the call to its return or panic
Retrieve ==
    /\ rpc = "call"
    /\ \E r \in {retrieve(input, rconfig)} :
           /\ rpc' = r.pc
           /\ boosted_similarities' = r.boosted_similarities
           /\ probe_activations' = r.probe_activations
           /\ initial_activations' = r.initial_activations
           /\ seeds' = r.seeds
           /\ candidates' = r.candidates
    /\ UNCHANGED <<input, rconfig, spreadVars, callVars, consolidationVars, processVars>>

NextRetrieve == Retrieve

SpecRetrieve == InitRetrieve /\ [][NextRetrieve]_vars

\* stores larger than the seed cap, every trace similar to the probe
InitSeeds ==
    /\ \E n \in SeedCap .. (SeedCap + MaxExtraTraces) :
          input \in {i \in RetrievalInputs(n, {<<1, 0>>, <<3, 4>>, <<5, 12>>}) :
                        /\ i.access_histories_ms = Repeat(<<1000000 - 500>>, n)
                        /\ i.decay_rates = <<>>
                        /\ i.working_memory_boosts = <<>>
                        /\ i.associations = <<>>}
    /\ rconfig = DefaultRetrievalConfig
    /\ Called
    /\ SpreadIdle
    /\ CallIdle
    /\ ConsolidationIdle
    /\ ProcessIdle

SpecSeeds == InitSeeds /\ [][NextRetrieve]_vars

-----------------------------------------------------------------------------
(* Properties of retrieve *)

Returned == rpc = "done"

\* C7: the list retrieve returns is in non-increasing order of
\* total_activation, and candidates of equal total_activation are in ascending
\* index order, also when the list was cut to max_results.
C7_RankedByTotalThenIndex ==
    Returned =>
        \A k, l \in DOMAIN candidates :
            k < l =>
                /\ RLe(candidates[l].total_activation, candidates[k].total_activation)
                /\ candidates[k].total_activation = candidates[l].total_activation
                       => candidates[k].index < candidates[l].index

\* a returned list that was cut to max_results and holds two candidates of
\* equal total activation
C7_Witness ==
    /\ Returned
    /\ rconfig.min_probability = Zero
    /\ Len(input.memory_embeddings) > rconfig.max_results
    /\ Len(candidates) = rconfig.max_results
    /\ \E k, l \in DOMAIN candidates :
          /\ k < l
          /\ candidates[k].total_activation = candidates[l].total_activation

SeedIndices == {seeds[k][1] : k \in DOMAIN seeds}

\* the traces that pass the seed filter
EligibleTraces ==
    {i \in 0 .. (Len(probe_activations) - 1) :
        RLt(SeedThreshold, probe_activations[i + 1])}

\* C8: retrieve spreads from at most 5 seeds, every seed has a cubed boosted
\* similarity strictly above 0.1, and no eligible trace left out of the seeds
\* has a strictly larger initial activation than a seed.
C8_SeedsAreTopEligible ==
    Returned =>
        /\ Len(seeds) <= 5
        /\ SeedIndices \subseteq EligibleTraces
        /\ \A i \in EligibleTraces \ SeedIndices : \A k \in DOMAIN seeds :
              ~RLt(seeds[k][2], initial_activations[i + 1])

\* five seeds chosen, an eligible trace left out
C8_Witness ==
    /\ Returned
    /\ Len(seeds) = 5
    /\ EligibleTraces \ SeedIndices # {}

\* C9: the value handed to the cubic nonlinearity lies in [-1, 1] for every
\* similarity in [-1, 1] and every working-memory boost >= 1.
C9_BoostedInRange ==
    Returned =>
        \A k \in DOMAIN boosted_similarities :
            /\ RLe(<<-1, 1>>, boosted_similarities[k])
            /\ RLe(boosted_similarities[k], One)

\* C10: the probe_activation field of every returned candidate is at most 1.0,
\* for any working-memory boost and any emotional weight in [0, 1].
C10_ProbeActivationCapped ==
    Returned =>
        \A k \in DOMAIN candidates : RLe(candidates[k].probe_activation, One)

\* an optional channel with every missing entry written out
PadTo(arr, n, default) ==
    [k \in 1 .. (IF Len(arr) > n THEN Len(arr) ELSE n) |->
        IF k <= Len(arr) THEN arr[k] ELSE default]

\* the input with full working_memory_boosts and decay_rates channels
PaddedInput ==
    [input EXCEPT
        !.working_memory_boosts = PadTo(@, Len(input.memory_embeddings), One),
        !.decay_rates = PadTo(@, Len(input.memory_embeddings), rconfig.decay_rate)]

\* C11: with working_memory_boosts or decay_rates shorter than the store,
\* retrieve completes, and its result is the result for the channels with every
\* missing entry set to 1.0 (boost) and config.decay_rate (decay rate).
C11_ShortChannelsDefault ==
    rpc # "call" =>
        /\ Len(input.access_histories_ms) >= Len(input.memory_embeddings)
               => Returned
        /\ \E r \in {retrieve(PaddedInput, rconfig)} :
              /\ r.pc = rpc
              /\ r.boosted_similarities = boosted_similarities
              /\ r.initial_activations = initial_activations
              /\ r.seeds = seeds
              /\ r.candidates = candidates

\* a completed call on partly filled boost and decay-rate channels
C11_Witness ==
    /\ Returned
    /\ Len(input.working_memory_boosts) \in 1 .. (Len(input.memory_embeddings) - 1)
    /\ Len(input.decay_rates) \in 1 .. (Len(input.memory_embeddings) - 1)
    /\ candidates # <<>>

\* the probe similarity of the trace behind a candidate
SimilarityOf(c) ==
    cosine_similarity_batch(input.probe_embedding, input.memory_embeddings)[c.index + 1]

\* C12: in the result of retrieve, a trace of probe similarity <= 0 that
\* receives no spreading never ranks above a trace of probe similarity > 0,
\* whatever the access histories (emotional weights in [0, 1]).
C12_RecencyCannotRescue ==
    Returned =>
        \A k, l \in DOMAIN candidates :
            /\ RLe(SimilarityOf(candidates[k]), Zero)
            /\ candidates[k].spreading = Zero
            /\ RLt(Zero, SimilarityOf(candidates[l]))
            => l < k

\* a result holding an irrelevant trace of higher base level than a relevant one
C12_Witness ==
    /\ Returned
    /\ \E k, l \in DOMAIN candidates :
          /\ RLe(SimilarityOf(candidates[k]), Zero)
          /\ candidates[k].spreading = Zero
          /\ RLt(Zero, SimilarityOf(candidates[l]))
          /\ RLt(candidates[l].base_level, candidates[k].base_level)

-----------------------------------------------------------------------------
(* activation.rs: session-aware decay rate *)

\* the function without the guard against future timestamps
SessionDecayUnguarded(last_access_ms, current_time_ms) ==
    LET hours_ago == Rat(current_time_ms - last_access_ms, 3600000)
    IN  IF RLt(hours_ago, Half) THEN <<3, 10>>
        ELSE IF RLt(hours_ago, <<2, 1>>) THEN <<2, 5>>
        ELSE IF RLt(hours_ago, <<24, 1>>) THEN <<9, 20>>
        ELSE Half

compute_session_decay_rate(last_access_ms, current_time_ms) ==
    LET hours_ago == Rat(current_time_ms - last_access_ms, 3600000)
    IN  IF RLt(hours_ago, Zero) THEN Half
        ELSE IF RLt(hours_ago, Half) THEN <<3, 10>>
        ELSE IF RLt(hours_ago, <<2, 1>>) THEN <<2, 5>>
        ELSE IF RLt(hours_ago, <<24, 1>>) THEN <<9, 20>>
        ELSE Half

\* a call is pending until `result` holds the returned value
Pending == result = <<>>
Returns(v) == result' = <<v>>
OnlyCall == UNCHANGED <<call, spreadVars, retrieveVars, consolidationVars, processVars>>

\* longest elapsed time explored, in quarters of an hour
MaxQuarterHours == 100

\* elapsed times: every quarter of an hour from one hour in the future on,
\* and the millisecond before and after
ElapsedGrid ==
    {q * 900000 + j : q \in (-4) .. MaxQuarterHours, j \in {-1, 0, 1}}

InitSessionDecay ==
    /\ \E now \in {90000000, 100000000} : \E e \in ElapsedGrid :
          call = [fn |-> "compute_session_decay_rate",
                  last_access_ms |-> now - e, current_time_ms |-> now]
    /\ Pending
    /\ SpreadIdle
    /\ RetrieveIdle
    /\ ConsolidationIdle
    /\ ProcessIdle

SessionDecay ==
    /\ call.fn = "compute_session_decay_rate"
    /\ Pending
    /\ Returns(compute_session_decay_rate(call.last_access_ms, call.current_time_ms))
    /\ OnlyCall

NextSessionDecay == SessionDecay

SpecSessionDecay == InitSessionDecay /\ [][NextSessionDecay]_vars

ElapsedMs == call.current_time_ms - call.last_access_ms

\* C13: compute_session_decay_rate is 0.3 below 0.5 h since the last access,
\* 0.4 from 0.5 h up to 2 h, 0.45 from 2 h up to 24 h and 0.5 from 24 h on; it
\* is non-decreasing in the elapsed time for elapsed >= 0, and it is 0.5 for a
\* last access in the future.
C13_SessionDecaySteps ==
    ~Pending =>
        /\ result[1] = IF ElapsedMs < 0 THEN <<1, 2>>
                       ELSE IF ElapsedMs < 1800000 THEN <<3, 10>>
                       ELSE IF ElapsedMs < 7200000 THEN <<2, 5>>
                       ELSE IF ElapsedMs < 86400000 THEN <<9, 20>>
                       ELSE <<1, 2>>
        /\ \A e \in ElapsedGrid :
              0 <= e /\ e <= ElapsedMs =>
                  RLe(compute_session_decay_rate(call.current_time_ms - e,
                                                 call.current_time_ms),
                      result[1])

\* calls at exactly half an hour and one millisecond in the future
C13_Witness ==
    /\ ~Pending
    /\ \/ ElapsedMs = 1800000 /\ result[1] = <<2, 5>>
       \/ ElapsedMs = -1 /\ result[1] = <<1, 2>>

-----------------------------------------------------------------------------
(* activation.rs: reconsolidation thresholds *)

\* ReconsolidationConfig::default()
DefaultReconsolidationConfig ==
    [theta_low |-> <<1, 10>>,
     theta_high |-> <<11, 20>>,
     beta |-> <<10, 1>>,
     strength_shift |-> <<3, 20>>,
     age_shift |-> <<1, 20>>,
     baseline_count |-> <<5, 1>>,
     baseline_days |-> One]

\* a / b for b > 0
RDiv(a, b) == RMul(a, <<b[2], b[1]>>)

\* the thresholds without the minimum gap
ThresholdsUnclamped(theta_low, theta_high, access_count, days_since_last_access, cfg) ==
    <<RAdd(RMul(cfg.age_shift,
                RMin(RDiv(days_since_last_access, cfg.baseline_days), <<5, 1>>)),
           theta_low),
      RAdd(RMul(RNeg(cfg.strength_shift),
                RMin(RDiv(<<access_count, 1>>, cfg.baseline_count), <<3, 1>>)),
           theta_high)>>

compute_effective_thresholds(theta_low, theta_high, access_count, days_since_last_access, cfg) ==
    LET age_factor == RMin(RDiv(days_since_last_access, cfg.baseline_days), <<5, 1>>)
        effective_low == RAdd(RMul(cfg.age_shift, age_factor), theta_low)
        use_factor == RMin(RDiv(<<access_count, 1>>, cfg.baseline_count), <<3, 1>>)
        effective_high == RAdd(RMul(RNeg(cfg.strength_shift), use_factor), theta_high)
    IN  <<effective_low, RMax(effective_high, RAdd(effective_low, <<1, 20>>))>>

pe_zone(pe_abs, theta_low_eff, theta_high_eff) ==
    IF RLt(pe_abs, theta_low_eff) THEN "reinforce"
    ELSE IF RLt(pe_abs, theta_high_eff) THEN "reconsolidate"
    ELSE "new_trace"

\* largest access count explored
MaxAccessCount == 20

\* base thresholds, in order and inverted, and days since the last access
ThetaLows == {Zero, <<1, 10>>, <<3, 10>>, Half, <<7, 10>>}
ThetaHighs == {<<3, 10>>, <<11, 20>>, <<7, 10>>, <<9, 10>>}
DaysSinceAccess == {Zero, Half, One, <<5, 1>>, <<10, 1>>}

InitThresholds ==
    /\ call \in [fn : {"compute_effective_thresholds"},
                 theta_low : ThetaLows,
                 theta_high : ThetaHighs,
                 access_count : 0 .. MaxAccessCount,
                 days_since_last_access : DaysSinceAccess,
                 config : {DefaultReconsolidationConfig}]
    /\ Pending
    /\ SpreadIdle
    /\ RetrieveIdle
    /\ ConsolidationIdle
    /\ ProcessIdle

Thresholds ==
    /\ call.fn = "compute_effective_thresholds"
    /\ Pending
    /\ Returns(compute_effective_thresholds(call.theta_low, call.theta_high,
                                            call.access_count,
                                            call.days_since_last_access, call.config))
    /\ OnlyCall

NextThresholds == Thresholds

SpecThresholds == InitThresholds /\ [][NextThresholds]_vars

\* C14: compute_effective_thresholds returns (low, high) with
\* high >= low + 0.05 for every base pair, access count and days since access,
\* so pe_zone has a reinforce zone below low, a reconsolidate zone from low up
\* to high and a new_trace zone from high on, none of them empty.
C14_ThresholdGap ==
    ~Pending =>
        LET low == result[1][1]
            high == result[1][2]
        IN  /\ RLe(RAdd(low, <<1, 20>>), high)
            /\ pe_zone(RSub(low, One), low, high) = "reinforce"
            /\ pe_zone(low, low, high) = "reconsolidate"
            /\ pe_zone(high, low, high) = "new_trace"

\* a call in which the shifted thresholds alone would be closer than 0.05
C14_Witness ==
    /\ ~Pending
    /\ LET raw == ThresholdsUnclamped(call.theta_low, call.theta_high,
                                      call.access_count,
                                      call.days_since_last_access, call.config)
       IN  /\ RLt(raw[2], RAdd(raw[1], <<1, 20>>))
           /\ result[1][2] = RAdd(result[1][1], <<1, 20>>)

-----------------------------------------------------------------------------
(* location.rs: familiarity decay.  Timestamps are whole hours and written *)
(* in hours, so that ms_per_day is 24; they are finite.                    *)

HoursPerDay == 24

\* LocationConfig::default(), the fields decay reads
DefaultLocationConfig ==
    [stale_threshold_days |-> 30,
     max_decay_rate |-> <<1, 10>>,
     decay_dampening |-> <<4, 5>>,
     base_floor |-> <<1, 10>>,
     sticky_bonus |-> <<2, 5>>]

\* the decay applied whether or not the location is pinned
DecayedIgnoringPin(current_familiarity, last_accessed, current_time, is_pinned, cfg) ==
    LET days_since_access == Rat(current_time - last_accessed, HoursPerDay)
        decay_rate == RMul(cfg.max_decay_rate,
                           RAdd(RMul(current_familiarity, RNeg(cfg.decay_dampening)), One))
        floor == IF RLt(Half, current_familiarity)
                 THEN RAdd(RMul(cfg.sticky_bonus, RSub(current_familiarity, Half)),
                           cfg.base_floor)
                 ELSE cfg.base_floor
    IN  IF last_accessed < 0 THEN current_familiarity
        ELSE IF RLt(days_since_access, <<cfg.stale_threshold_days, 1>>)
        THEN current_familiarity
        ELSE RMax(RMul(current_familiarity, RSub(One, decay_rate)), floor)

compute_decayed_familiarity(current_familiarity, last_accessed, current_time, is_pinned, cfg) ==
    LET days_since_access == Rat(current_time - last_accessed, HoursPerDay)
        decay_rate == RMul(cfg.max_decay_rate,
                           RAdd(RMul(current_familiarity, RNeg(cfg.decay_dampening)), One))
        floor == IF RLt(Half, current_familiarity)
                 THEN RAdd(RMul(cfg.sticky_bonus, RSub(current_familiarity, Half)),
                           cfg.base_floor)
                 ELSE cfg.base_floor
    IN  IF is_pinned THEN current_familiarity
        ELSE IF last_accessed < 0 THEN current_familiarity
        ELSE IF RLt(days_since_access, <<cfg.stale_threshold_days, 1>>)
        THEN current_familiarity
        ELSE RMax(RMul(current_familiarity, RSub(One, decay_rate)), floor)

compute_batch_decay(locations, current_time, cfg) ==
    Collect([k \in DOMAIN locations |->
                compute_decayed_familiarity(locations[k].familiarity,
                                            locations[k].last_accessed_ms,
                                            current_time,
                                            locations[k].is_pinned, cfg)])

-----------------------------------------------------------------------------
(* visual.rs: pruning.  Option<u32> is <<>> for None and <<k>> for Some(k). *)

\* VisualConfig::default(), the fields pruning reads
DefaultVisualConfig ==
    [stale_threshold_days |-> 14,
     pruning_threshold |-> <<1, 5>>,
     pruning_stale_days |-> 90,
     preserve_keyframes |-> TRUE]

\* the closure of filter_map: None, or the candidate of memory i
PruningEntry(i, mem, current_time, cfg) ==
    LET days_since_access == Rat(current_time - mem.last_accessed_ms, HoursPerDay)
    IN  IF mem.is_pinned THEN <<>>
        ELSE IF cfg.preserve_keyframes /\ mem.frame_number = <<0>> THEN <<>>
        ELSE IF RLt(<<cfg.pruning_stale_days, 1>>, days_since_access)
        THEN <<[index |-> i,
                significance |-> mem.significance,
                days_since_access |-> days_since_access,
                reason |-> "Stale",
                score |-> RMul(RDiv(days_since_access, <<cfg.pruning_stale_days, 1>>),
                               RSub(One, mem.significance))]>>
        ELSE IF RLt(mem.significance, cfg.pruning_threshold)
        THEN <<[index |-> i,
                significance |-> mem.significance,
                days_since_access |-> days_since_access,
                reason |-> "LowSignificance",
                score |-> RMul(RSub(cfg.pruning_threshold, mem.significance),
                               RMin(RDiv(days_since_access,
                                         <<cfg.stale_threshold_days, 1>>), One))]>>
        ELSE <<>>

\* Iterator::filter_map(..).collect(): the Some values, in order
RECURSIVE FilterMap(_)
FilterMap(options) ==
    IF options = <<>> THEN <<>> ELSE Head(options) \o FilterMap(Tail(options))

compute_pruning_candidates(memories, current_time, cfg) ==
    LET kept == FilterMap(Collect([k \in DOMAIN memories |->
                             PruningEntry(k - 1, memories[k], current_time, cfg)]))
        order == sort_by_descending(Collect([k \in DOMAIN kept |-> kept[k].score]))
    IN  Collect([k \in DOMAIN order |-> kept[order[k]]])

\* should_prune without the keyframe check
ShouldPruneKeyframes(significance, days_since_access, is_pinned, is_keyframe, cfg) ==
    IF is_pinned THEN FALSE
    ELSE IF /\ RLt(<<cfg.pruning_stale_days, 1>>, days_since_access)
            /\ RLt(significance, cfg.pruning_threshold)
    THEN TRUE
    ELSE /\ RLt(<<cfg.pruning_stale_days * 2, 1>>, days_since_access)
         /\ RLt(significance, Half)

should_prune(significance, days_since_access, is_pinned, is_keyframe, cfg) ==
    IF is_pinned THEN FALSE
    ELSE IF cfg.preserve_keyframes /\ is_keyframe THEN FALSE
    ELSE IF /\ RLt(<<cfg.pruning_stale_days, 1>>, days_since_access)
            /\ RLt(significance, cfg.pruning_threshold)
    THEN TRUE
    ELSE /\ RLt(<<cfg.pruning_stale_days * 2, 1>>, days_since_access)
         /\ RLt(significance, Half)

-----------------------------------------------------------------------------
(* Arguments of the decay and pruning functions explored by the model *)

\* longest list of locations or memories
MaxMemories == 2

\* day 100, and last accesses before the epoch, 100, 60, 30 and just under 30
\* days ago, yesterday and tomorrow
LocationNow == 100 * HoursPerDay
LocationLastAccesses ==
    {-HoursPerDay, 0, 40 * HoursPerDay, 70 * HoursPerDay, 70 * HoursPerDay + 1,
     99 * HoursPerDay, 101 * HoursPerDay}

DecayCalls ==
    [fn : {"compute_decayed_familiarity"},
     current_familiarity : {Zero, <<1, 20>>, Half, <<4, 5>>, One},
     last_accessed_ms : LocationLastAccesses,
     current_time_ms : {LocationNow},
     is_pinned : BOOLEAN,
     config : {DefaultLocationConfig}]

\* LocationIntuition, the fields decay reads
LocationPool ==
    [familiarity : {<<1, 20>>, <<4, 5>>},
     last_accessed_ms : {0, 99 * HoursPerDay},
     is_pinned : BOOLEAN]

BatchDecayCalls ==
    [fn : {"compute_batch_decay"},
     locations : SeqsUpTo(LocationPool, MaxMemories),
     current_time_ms : {LocationNow},
     config : {DefaultLocationConfig}]

ShouldPruneCalls ==
    [fn : {"should_prune"},
     significance : {Zero, <<1, 10>>, <<1, 5>>, <<2, 5>>, Half, One},
     days_since_access : {<<d, 1>> : d \in {0, 45, 90, 91, 180, 181}},
     is_pinned : BOOLEAN,
     is_keyframe : BOOLEAN,
     config : {DefaultVisualConfig,
               [DefaultVisualConfig EXCEPT !.preserve_keyframes = FALSE]}]

\* day 200, and memories accessed now, 90 days, 91 days and 181 days ago
VisualNow == 200 * HoursPerDay
\* VisualMemory, the fields pruning reads
MemoryPool ==
    [is_pinned : BOOLEAN,
     frame_number : {<<>>, <<0>>},
     last_accessed_ms : {VisualNow, 110 * HoursPerDay, 109 * HoursPerDay,
                         19 * HoursPerDay},
     significance : {<<1, 10>>, <<2, 5>>}]

PruningCalls ==
    [fn : {"compute_pruning_candidates"},
     memories : SeqsUpTo(MemoryPool, MaxMemories),
     current_time_ms : {VisualNow},
     config : {DefaultVisualConfig,
               [DefaultVisualConfig EXCEPT !.preserve_keyframes = FALSE]}]

-----------------------------------------------------------------------------
(* State machine of the decay and pruning calls *)

InitDecayPruning ==
    /\ call \in DecayCalls \cup BatchDecayCalls \cup ShouldPruneCalls \cup PruningCalls
    /\ Pending
    /\ SpreadIdle
    /\ RetrieveIdle
    /\ ConsolidationIdle
    /\ ProcessIdle

DecayedFamiliarity ==
    /\ call.fn = "compute_decayed_familiarity"
    /\ Pending
    /\ Returns(compute_decayed_familiarity(call.current_familiarity,
                                           call.last_accessed_ms, call.current_time_ms,
                                           call.is_pinned, call.config))
    /\ OnlyCall

BatchDecay ==
    /\ call.fn = "compute_batch_decay"
    /\ Pending
    /\ Returns(compute_batch_decay(call.locations, call.current_time_ms, call.config))
    /\ OnlyCall

ShouldPrune ==
    /\ call.fn = "should_prune"
    /\ Pending
    /\ Returns(should_prune(call.significance, call.days_since_access,
                            call.is_pinned, call.is_keyframe, call.config))
    /\ OnlyCall

PruningCandidates ==
    /\ call.fn = "compute_pruning_candidates"
    /\ Pending
    /\ Returns(compute_pruning_candidates(call.memories, call.current_time_ms,
                                          call.config))
    /\ OnlyCall

NextDecayPruning ==
    DecayedFamiliarity \/ BatchDecay \/ ShouldPrune \/ PruningCandidates

SpecDecayPruning == InitDecayPruning /\ [][NextDecayPruning]_vars

-----------------------------------------------------------------------------
(* Properties of decay and pruning *)

\* C15: a pinned location keeps its familiarity under compute_decayed_familiarity
\* and compute_batch_decay for any timestamps, should_prune is false for a
\* pinned memory, and compute_pruning_candidates reports no pinned memory.
C15_PinnedImmune ==
    ~Pending =>
        CASE call.fn = "compute_decayed_familiarity" ->
                 call.is_pinned => result[1] = call.current_familiarity
          [] call.fn = "compute_batch_decay" ->
                 /\ Len(result[1]) = Len(call.locations)
                 /\ \A k \in DOMAIN call.locations :
                       call.locations[k].is_pinned
                           => result[1][k] = call.locations[k].familiarity
          [] call.fn = "should_prune" ->
                 call.is_pinned => result[1] = FALSE
          [] call.fn = "compute_pruning_candidates" ->
                 \A k \in DOMAIN result[1] :
                     ~call.memories[result[1][k].index + 1].is_pinned

\* a pinned location returned unchanged that would have decayed unpinned
C15_Witness ==
    /\ ~Pending
    /\ call.fn = "compute_decayed_familiarity"
    /\ call.is_pinned
    /\ result[1] = call.current_familiarity
    /\ compute_decayed_familiarity(call.current_familiarity, call.last_accessed_ms,
                                   call.current_time_ms, FALSE, call.config)
           # call.current_familiarity

\* memory i is neither pinned nor a preserved keyframe
Prunable(i) ==
    /\ ~call.memories[i + 1].is_pinned
    /\ ~(call.config.preserve_keyframes /\ call.memories[i + 1].frame_number = <<0>>)

MemoryDays(i) ==
    Rat(call.current_time_ms - call.memories[i + 1].last_accessed_ms, HoursPerDay)

ReportedAs(i, reason) ==
    \E k \in DOMAIN result[1] :
        result[1][k].index = i /\ result[1][k].reason = reason

\* C16: compute_pruning_candidates reports a memory that is neither pinned nor
\* a preserved keyframe as Stale iff days_since_access > pruning_stale_days,
\* and otherwise as LowSignificance iff significance < pruning_threshold and
\* days_since_access > 0; it reports no other memory, and the candidates are
\* in non-increasing score order.
C16_PruningClassification ==
    ~Pending /\ call.fn = "compute_pruning_candidates" =>
        /\ \A i \in 0 .. (Len(call.memories) - 1) :
              IF ~Prunable(i)
              THEN \A k \in DOMAIN result[1] : result[1][k].index # i
              ELSE IF RLt(<<call.config.pruning_stale_days, 1>>, MemoryDays(i))
              THEN ReportedAs(i, "Stale") /\ ~ReportedAs(i, "LowSignificance")
              ELSE /\ ~ReportedAs(i, "Stale")
                   /\ ReportedAs(i, "LowSignificance")
                          <=> /\ RLt(call.memories[i + 1].significance,
                                     call.config.pruning_threshold)
                              /\ RLt(Zero, MemoryDays(i))
        /\ \A k, l \in DOMAIN result[1] :
              k < l => /\ result[1][k].index # result[1][l].index
                       /\ RLe(result[1][l].score, result[1][k].score)

-----------------------------------------------------------------------------
(* location.rs: activity type inference.  A &str is the sequence of its    *)
(* characters; Option<T> is <<>> for None and <<x>> for Some(x).           *)

UpperCase == <<"A", "B", "C", "D", "E", "F", "G", "H", "I", "J", "K", "L", "M", "N", "O", "P", "Q", "R", "S", "T", "U", "V", "W", "X", "Y", "Z">>
LowerCase == <<"a", "b", "c", "d", "e", "f", "g", "h", "i", "j", "k", "l", "m", "n", "o", "p", "q", "r", "s", "t", "u", "v", "w", "x", "y", "z">>

\* char::to_lowercase on the letters of the model
ToLowerChar(c) ==
    IF \E i \in DOMAIN UpperCase : UpperCase[i] = c
    THEN LowerCase[CHOOSE i \in DOMAIN UpperCase : UpperCase[i] = c]
    ELSE c

\* str::to_lowercase
to_lowercase(str) == [k \in DOMAIN str |-> ToLowerChar(str[k])]

\* str::contains
contains(str, pat) ==
    \E k \in 0 .. (Len(str) - Len(pat)) : SubSeq(str, k + 1, k + Len(pat)) = pat

\* a table giving every keyword group the confidence 0.9
KeywordMatchesFlat ==
    <<
      [activity_type |-> "Debugging",
       keywords |-> {<<"d", "e", "b", "u", "g">>,
                    <<"f", "i", "x">>,
                    <<"b", "u", "g">>,
                    <<"i", "s", "s", "u", "e">>,
                    <<"e", "r", "r", "o", "r">>,
                    <<"t", "r", "a", "c", "e">>},
       confidence |-> <<9, 10>>],
      [activity_type |-> "Refactoring",
       keywords |-> {<<"r", "e", "f", "a", "c", "t", "o", "r">>,
                    <<"c", "l", "e", "a", "n">>,
                    <<"r", "e", "o", "r", "g", "a", "n", "i", "z", "e">>,
                    <<"r", "e", "s", "t", "r", "u", "c", "t", "u", "r", "e">>},
       confidence |-> <<9, 10>>],
      [activity_type |-> "Reviewing",
       keywords |-> {<<"r", "e", "v", "i", "e", "w">>,
                    <<"u", "n", "d", "e", "r", "s", "t", "a", "n", "d">>,
                    <<"c", "h", "e", "c", "k">>,
                    <<"e", "x", "a", "m", "i", "n", "e">>,
                    <<"a", "u", "d", "i", "t">>},
       confidence |-> <<9, 10>>],
      [activity_type |-> "Writing",
       keywords |-> {<<"i", "m", "p", "l", "e", "m", "e", "n", "t">>,
                    <<"a", "d", "d">>,
                    <<"c", "r", "e", "a", "t", "e">>,
                    <<"w", "r", "i", "t", "e">>,
                    <<"b", "u", "i", "l", "d">>},
       confidence |-> <<9, 10>>],
      [activity_type |-> "Reading",
       keywords |-> {<<"r", "e", "a", "d">>,
                    <<"l", "o", "o", "k">>,
                    <<"s", "e", "e">>,
                    <<"v", "i", "e", "w">>,
                    <<"i", "n", "s", "p", "e", "c", "t">>},
       confidence |-> <<9, 10>>]
    >>

\* keyword_matches: (activity, keywords, confidence), in order
KeywordMatches ==
    <<
      [activity_type |-> "Debugging",
       keywords |-> {<<"d", "e", "b", "u", "g">>,
                    <<"f", "i", "x">>,
                    <<"b", "u", "g">>,
                    <<"i", "s", "s", "u", "e">>,
                    <<"e", "r", "r", "o", "r">>,
                    <<"t", "r", "a", "c", "e">>},
       confidence |-> <<9, 10>>],
      [activity_type |-> "Refactoring",
       keywords |-> {<<"r", "e", "f", "a", "c", "t", "o", "r">>,
                    <<"c", "l", "e", "a", "n">>,
                    <<"r", "e", "o", "r", "g", "a", "n", "i", "z", "e">>,
                    <<"r", "e", "s", "t", "r", "u", "c", "t", "u", "r", "e">>},
       confidence |-> <<9, 10>>],
      [activity_type |-> "Reviewing",
       keywords |-> {<<"r", "e", "v", "i", "e", "w">>,
                    <<"u", "n", "d", "e", "r", "s", "t", "a", "n", "d">>,
                    <<"c", "h", "e", "c", "k">>,
                    <<"e", "x", "a", "m", "i", "n", "e">>,
                    <<"a", "u", "d", "i", "t">>},
       confidence |-> <<4, 5>>],
      [activity_type |-> "Writing",
       keywords |-> {<<"i", "m", "p", "l", "e", "m", "e", "n", "t">>,
                    <<"a", "d", "d">>,
                    <<"c", "r", "e", "a", "t", "e">>,
                    <<"w", "r", "i", "t", "e">>,
                    <<"b", "u", "i", "l", "d">>},
       confidence |-> <<7, 10>>],
      [activity_type |-> "Reading",
       keywords |-> {<<"r", "e", "a", "d">>,
                    <<"l", "o", "o", "k">>,
                    <<"s", "e", "e">>,
                    <<"v", "i", "e", "w">>,
                    <<"i", "n", "s", "p", "e", "c", "t">>},
       confidence |-> <<3, 5>>]
    >>

\* the first group with a keyword in the lowered context, or none
RECURSIVE FirstKeywordMatch(_, _)
FirstKeywordMatch(lower, groups) ==
    IF groups = <<>> THEN <<>>
    ELSE IF \E kw \in Head(groups).keywords : contains(lower, kw)
    THEN <<Head(groups)>>
    ELSE FirstKeywordMatch(lower, Tail(groups))

\* the match on the tool name
ToolActivity(tool) ==
    IF tool \in {"Read", "Grep", "Glob"} THEN <<"Reading">>
    ELSE IF tool \in {"Edit", "Write"} THEN <<"Writing">>
    ELSE <<>>

ActivityInference(activity_type, source, confidence) ==
    [activity_type |-> activity_type, source |-> source, confidence |-> confidence]

\* steps 2 to 4: keyword, then tool, then the default
InferFromContext(context, tool_name) ==
    LET matched == FirstKeywordMatch(to_lowercase(context), KeywordMatches)
    IN  IF matched # <<>>
        THEN ActivityInference(matched[1].activity_type, "Keyword", matched[1].confidence)
        ELSE IF tool_name # <<>> /\ ToolActivity(tool_name[1]) # <<>>
        THEN ActivityInference(ToolActivity(tool_name[1])[1], "Tool", Half)
        ELSE ActivityInference("Unknown", "Default", Zero)

\* an inference that returns every explicit value, Unknown included
InferExplicitAlways(context, tool_name, explicit) ==
    IF explicit # <<>>
    THEN ActivityInference(explicit[1], "Explicit", One)
    ELSE InferFromContext(context, tool_name)

infer_activity_type(context, tool_name, explicit) ==
    IF explicit # <<>> /\ explicit[1] # "Unknown"
    THEN ActivityInference(explicit[1], "Explicit", One)
    ELSE InferFromContext(context, tool_name)

ActivityTypes ==
    {"Reading", "Writing", "Debugging", "Refactoring", "Reviewing", "Unknown"}

Option(S) == {<<>>} \cup {<<x>> : x \in S}

\* context strings with no keyword, one keyword, a keyword inside a longer
\* word, upper case, and keywords of two groups
Contexts ==
    {<<>>,
     <<"d", "o", "i", "n", "g", " ", "s", "t", "u", "f", "f">>,
     <<"D", "e", "b", "u", "g", "g", "i", "n", "g", " ", "t", "h", "e", " ", "i", "s", "s", "u", "e">>,
     <<"F", "I", "X", " ", "i", "t">>,
     <<"c", "l", "e", "a", "n", " ", "u", "p">>,
     <<"c", "o", "d", "e", " ", "r", "e", "v", "i", "e", "w">>,
     <<"a", "d", "d", " ", "a", " ", "t", "e", "s", "t">>,
     <<"r", "e", "a", "d", "i", "n", "g", " ", "c", "o", "d", "e">>,
     <<"a", "d", "d", "r", "e", "s", "s", " ", "l", "i", "s", "t">>,
     <<"o", "p", "e", "n", " ", "t", "h", "e", " ", "f", "i", "l", "e">>,
     <<"o", "v", "e", "r", "v", "i", "e", "w">>,
     <<"l", "o", "o", "k", " ", "a", "n", "d", " ", "r", "e", "f", "a", "c", "t", "o", "r">>}

ToolNames == {"Read", "Grep", "Glob", "Edit", "Write", "Bash"}

InitInfer ==
    /\ call \in [fn : {"infer_activity_type"},
                 context : Contexts,
                 tool_name : Option(ToolNames),
                 explicit : Option(ActivityTypes)]
    /\ Pending
    /\ SpreadIdle
    /\ RetrieveIdle
    /\ ConsolidationIdle
    /\ ProcessIdle

Infer ==
    /\ call.fn = "infer_activity_type"
    /\ Pending
    /\ Returns(infer_activity_type(call.context, call.tool_name, call.explicit))
    /\ OnlyCall

NextInfer == Infer

SpecInfer == InitInfer /\ [][NextInfer]_vars

-----------------------------------------------------------------------------
(* Properties of infer_activity_type *)

\* the groups with a keyword in the context of the call, case ignored
MatchingGroups ==
    {g \in DOMAIN KeywordMatches :
        \E kw \in KeywordMatches[g].keywords :
            contains(to_lowercase(call.context), kw)}

RecognisedTool == call.tool_name # <<>> /\ ToolActivity(call.tool_name[1]) # <<>>

\* the outcome when no explicit activity decides
ImplicitPrecedence ==
    IF MatchingGroups # {}
    THEN /\ result[1].source = "Keyword"
         /\ \E g \in MatchingGroups :
               result[1].activity_type = KeywordMatches[g].activity_type
    ELSE IF RecognisedTool
    THEN /\ result[1].source = "Tool"
         /\ result[1].activity_type = ToolActivity(call.tool_name[1])[1]
    ELSE /\ result[1].source = "Default"
         /\ result[1].activity_type = "Unknown"

C18_ConstantConfidence ==
    ~Pending =>
        /\ result[1].source = "Explicit" => result[1].confidence = One
        /\ result[1].source = "Keyword" => result[1].confidence = <<9, 10>>
        /\ result[1].source = "Tool" => result[1].confidence = Half

\* C18: the confidence is 1.0 for every explicit result, 0.5 for every
\* tool-name result, and for a keyword result 0.9 when the activity is
\* Debugging or Refactoring, 0.8 for Reviewing, 0.7 for Writing and 0.6 for
\* Reading.
C18_ConfidencePerPath ==
    ~Pending =>
        /\ result[1].source = "Explicit" => result[1].confidence = One
        /\ result[1].source = "Keyword" =>
              result[1].confidence =
                  CASE result[1].activity_type \in {"Debugging", "Refactoring"}
                           -> <<9, 10>>
                    [] result[1].activity_type = "Reviewing" -> <<4, 5>>
                    [] result[1].activity_type = "Writing" -> <<7, 10>>
                    [] result[1].activity_type = "Reading" -> <<3, 5>>
        /\ result[1].source = "Tool" => result[1].confidence = Half

\* a keyword result for Reading, of confidence 0.6
C18_Witness ==
    /\ ~Pending
    /\ result[1].source = "Keyword"
    /\ result[1].activity_type = "Reading"
    /\ result[1].confidence = <<3, 5>>

-----------------------------------------------------------------------------
(* visual.rs: consolidation of a visual memory *)

\* f64 times and durations: the integers of magnitude up to F64Max are the
\* finite values, a sum beyond them overflows to an infinity, and NaN is a
\* value of its own that every comparison rejects
F64Max == 12
Infinity == F64Max + 1
NegInfinity == -Infinity
NaN == F64Max + 2

F64Overflow(x) ==
    IF x > F64Max THEN Infinity ELSE IF x < -F64Max THEN NegInfinity ELSE x

F64Add(a, b) ==
    IF a = NaN \/ b = NaN THEN NaN
    ELSE IF a = Infinity THEN (IF b = NegInfinity THEN NaN ELSE Infinity)
    ELSE IF a = NegInfinity THEN (IF b = Infinity THEN NaN ELSE NegInfinity)
    ELSE IF b \in {Infinity, NegInfinity} THEN b
    ELSE F64Overflow(a + b)

F64Sub(a, b) == F64Add(a, IF b = NaN THEN NaN ELSE -b)

F64Lt(a, b) == a # NaN /\ b # NaN /\ a < b

F64Ge(a, b) == a # NaN /\ b # NaN /\ a >= b

\* a quotient of two times: a ratio, an infinity <<1, 0>> or <<-1, 0>>, or the
\* NaN <<0, 0>> of 0/0 and of infinity/infinity
RNaN == <<0, 0>>
F64Div(a, b) ==
    LET sign == IF (a < 0) = (b >= 0) THEN -1 ELSE 1
    IN  IF a = NaN \/ b = NaN THEN RNaN
        ELSE IF Abs(a) = Infinity /\ Abs(b) = Infinity THEN RNaN
        ELSE IF a = 0 /\ b = 0 THEN RNaN
        ELSE IF Abs(b) = Infinity THEN Zero
        ELSE IF b = 0 \/ Abs(a) = Infinity THEN <<sign, 0>>
        ELSE Rat(a, b)

\* f64::clamp(0.0, 1.0), which returns a NaN as it is
clamp(x) ==
    IF x = RNaN THEN RNaN
    ELSE IF x[2] = 0 THEN (IF x[1] < 0 THEN Zero ELSE One)
    ELSE RMax(Zero, RMin(One, x))

\* ConsolidationWindow::new
ConsolidationWindow(current_time_ms, duration_ms) ==
    [started_at_ms |-> current_time_ms,
     ends_at_ms |-> F64Add(current_time_ms, duration_ms),
     state |-> "Consolidating"]

\* ConsolidationWindow::is_open
is_open(window, current_time_ms) == F64Lt(current_time_ms, window.ends_at_ms)

\* ConsolidationWindow::progress
progress(window, current_time_ms) ==
    IF F64Ge(current_time_ms, window.ends_at_ms) THEN One
    ELSE LET elapsed == F64Sub(current_time_ms, window.started_at_ms)
             duration == F64Sub(window.ends_at_ms, window.started_at_ms)
         IN  clamp(F64Div(elapsed, duration))

\* VisualConsolidationState::default()
DefaultConsolidationState ==
    [state |-> "Fresh", window |-> <<>>, strength |-> Zero, reactivation_count |-> 0]

\* VisualConsolidationState::is_labile
is_labile(self) == self.state \in {"Consolidating", "Reconsolidating"}

\* VisualConsolidationState::start_consolidation
start_consolidation(self, current_time_ms, duration_ms) ==
    [self EXCEPT !.state = "Consolidating",
                 !.window = <<ConsolidationWindow(current_time_ms, duration_ms)>>]

\* VisualConsolidationState::update
update(self, current_time_ms) ==
    IF self.window = <<>> THEN self
    ELSE IF is_open(self.window[1], current_time_ms)
    THEN [self EXCEPT !.strength = progress(self.window[1], current_time_ms)]
    ELSE [self EXCEPT !.state = "Consolidated", !.strength = One, !.window = <<>>]

\* latest ordinary time of a call, and longest ordinary window
MaxTime == 6
MaxDuration == 3

\* times and durations of the calls: the ordinary ones, the finite extremes
\* and positive infinity
CallTimes == (0 .. MaxTime) \cup {-F64Max, F64Max, Infinity}
Durations == (0 .. MaxDuration) \cup {F64Max, Infinity}

InitConsolidation ==
    /\ consolidation = DefaultConsolidationState
    /\ clock = -F64Max
    /\ SpreadIdle
    /\ RetrieveIdle
    /\ CallIdle
    /\ ProcessIdle

\* a call of start_consolidation at a time not before the last call
StartConsolidation ==
    \E t \in CallTimes : \E d \in Durations :
        /\ clock <= t
        /\ consolidation' = start_consolidation(consolidation, t, d)
        /\ clock' = t
        /\ UNCHANGED <<spreadVars, retrieveVars, callVars, processVars>>

\* a call of update at a time not before the last call
Update ==
    \E t \in CallTimes :
        /\ clock <= t
        /\ consolidation' = update(consolidation, t)
        /\ clock' = t
        /\ UNCHANGED <<spreadVars, retrieveVars, callVars, processVars>>

NextConsolidation == StartConsolidation \/ Update

SpecConsolidation == InitConsolidation /\ [][NextConsolidation]_vars

\* the edges of the documented machine
ConsolidationEdges ==
    {<<"Fresh", "Consolidating">>,
     <<"Consolidating", "Consolidated">>,
     <<"Consolidated", "Reconsolidating">>,
     <<"Reconsolidating", "Consolidated">>}

\* C19: under start_consolidation and update calls at non-decreasing times the
\* consolidation state changes only along Fresh -> Consolidating ->
\* Consolidated -> Reconsolidating -> Consolidated.
C19_ConsolidationEdges ==
    [][consolidation'.state # consolidation.state
          => <<consolidation.state, consolidation'.state>> \in ConsolidationEdges]_vars

-----------------------------------------------------------------------------
(* visual.rs: video frame selection.  usize is modelled with UsizeBits     *)
(* bits; a build either checks arithmetic overflow and panics (debug) or   *)
(* wraps (release).                                                        *)

\* width of usize in the model
UsizeBits == 4
UsizeRange == 2 ^ UsizeBits

\* most frames of a video
MaxFrames == 8

\* the score of frame i (lines 846-871)
FrameScore(frame, transcript_segments) ==
    LET keyframe == IF frame.is_keyframe THEN <<3, 10>> ELSE Zero
        scene == IF frame.is_scene_change THEN Half ELSE Zero
        speech == IF /\ transcript_segments # <<>>
                     /\ \E k \in DOMAIN transcript_segments[1] :
                           /\ frame.timestamp_seconds
                                  >= transcript_segments[1][k].start_seconds
                           /\ frame.timestamp_seconds
                                  <= transcript_segments[1][k].end_seconds
                  THEN <<1, 5>> ELSE Zero
    IN  RAdd(RAdd(RAdd(frame.quality_score, keyframe), scene), speech)

\* usize::abs_diff
abs_diff(a, b) == IF a < b THEN b - a ELSE a - b

\* the loop over `scored` (lines 895-906) on the indices still to visit
RECURSIVE AddByScore(_, _, _, _)
AddByScore(scored, selected, max_frames, min_gap) ==
    IF scored = <<>> \/ Len(selected) >= max_frames THEN selected
    ELSE LET idx == Head(scored)
             too_close == \E k \in DOMAIN selected : abs_diff(idx, selected[k]) < min_gap
         IN  AddByScore(Tail(scored),
                        IF too_close THEN selected ELSE Append(selected, idx),
                        max_frames, min_gap)

\* slice::sort_unstable on usize
RECURSIVE InsertAscending(_, _)
InsertAscending(sorted, x) ==
    IF sorted = <<>> THEN <<x>>
    ELSE IF x < Head(sorted) THEN <<x>> \o sorted
    ELSE <<Head(sorted)>> \o InsertAscending(Tail(sorted), x)

RECURSIVE sort_unstable(_)
sort_unstable(q) ==
    IF q = <<>> THEN <<>> ELSE InsertAscending(sort_unstable(Tail(q)), Head(q))

Selection(v) == [status |-> "returned", value |-> v]
Panicked == [status |-> "panicked", value |-> <<>>]

select_frames_for_description(frames, max_frames, transcript_segments, overflow_checks) ==
    LET n == Len(frames)
        order == sort_by_descending(Collect([k \in DOMAIN frames |->
                                        FrameScore(frames[k], transcript_segments)]))
        scored == Collect([k \in DOMAIN order |-> order[k] - 1])
        ends == IF max_frames >= 2
                THEN IF n > 1 THEN <<0, n - 1>> ELSE <<0>>
                ELSE <<>>
        doubled == (max_frames * 2) % UsizeRange
        min_gap == IF n > doubled THEN n \div doubled ELSE 1
    IN  IF n = 0 \/ max_frames = 0 THEN Selection(<<>>)
        ELSE IF overflow_checks /\ max_frames * 2 >= UsizeRange THEN Panicked
        ELSE IF n > doubled /\ doubled = 0 THEN Panicked
        ELSE Selection(sort_unstable(AddByScore(scored, ends, max_frames, min_gap)))

\* a video of n frames at one frame per second, with at most one keyframe
\* and at most one scene change (position 0 means none)
FramesOf(n, keyframe, scene_change) ==
    [k \in 1..n |-> [timestamp_seconds |-> k - 1,
                     is_keyframe |-> (k = keyframe),
                     is_scene_change |-> (k = scene_change),
                     quality_score |-> Half]]

FrameLists ==
    {FramesOf(n, kf, sc) : n \in 0..MaxFrames, kf \in 0..MaxFrames, sc \in 0..MaxFrames}

\* speech during seconds 1 to 2
TranscriptSegments == {<<[start_seconds |-> 1, end_seconds |-> 2]>>}

InitFrames ==
    /\ call \in [fn : {"select_frames_for_description"},
                 frames : FrameLists,
                 max_frames : 0..(UsizeRange - 1),
                 transcript_segments : Option(TranscriptSegments),
                 overflow_checks : BOOLEAN]
    /\ Pending
    /\ SpreadIdle
    /\ RetrieveIdle
    /\ ConsolidationIdle
    /\ ProcessIdle

SelectFrames ==
    /\ call.fn = "select_frames_for_description"
    /\ Pending
    /\ Returns(select_frames_for_description(call.frames, call.max_frames,
                                             call.transcript_segments,
                                             call.overflow_checks))
    /\ OnlyCall

NextFrames == SelectFrames

SpecFrames == InitFrames /\ [][NextFrames]_vars

StrictlyIncreasing(q) == \A k \in 1..(Len(q) - 1) : q[k] < q[k + 1]

\* C20: for every frame list and every max_frames the call returns a
\* strictly increasing sequence of valid frame indices, at most max_frames
\* long, and empty when there are no frames or max_frames is 0
C20_FrameSelection ==
    (call # <<>> /\ call.fn = "select_frames_for_description" /\ ~Pending) =>
        /\ result[1].status = "returned"
        /\ StrictlyIncreasing(result[1].value)
        /\ \A k \in DOMAIN result[1].value :
               result[1].value[k] \in 0..(Len(call.frames) - 1)
        /\ Len(result[1].value) <= call.max_frames
        /\ (call.frames = <<>> \/ call.max_frames = 0) => result[1].value = <<>>

-----------------------------------------------------------------------------
(* lucid-perception pipeline.rs: process_video with the transcription      *)
(* feature.  The calls into FFmpeg and Whisper are the environment: their  *)
(* outcomes are fixed when the call starts (pipeline.env).  Frames are     *)
(* frame numbers, a transcript is the string "t"; the wall-clock fields of *)
(* ProcessingStats are not modelled.                                       *)

Ok(v) == [ok |-> TRUE, value |-> v, error |-> ""]
Err(e) == [ok |-> FALSE, value |-> <<>>, error |-> e]

\* PerceptionError::is_no_audio
is_no_audio(e) == e = "NoAudioStream"

\* what the transcript task returns once transcribe_video has completed
\* (lines 156-160): a missing audio stream becomes Ok(None)
TranscriptTaskResult(outcome) ==
    IF outcome = "Ok" THEN Ok(<<"t">>)
    ELSE IF is_no_audio(outcome) THEN Ok(<<>>)
    ELSE Err(outcome)

\* the transcript task up to its first await: TRUE when it returns at once
TranscriptTaskReturnsAtOnce(p) ==
    \/ p.config.skip_transcription
    \/ ~p.config.transcription
    \/ ~p.metadata.has_audio

\* the value returned for a failed call, and for a successful one
Failure(e) ==
    [status |-> "err", error |-> e, frames |-> <<>>, transcript |-> <<>>,
     no_audio |-> FALSE, frames_extracted |-> 0]
Success(frames, transcript, no_audio) ==
    [status |-> "ok", error |-> "", frames |-> frames, transcript |-> transcript,
     no_audio |-> no_audio, frames_extracted |-> Len(frames)]

\* the code after the join (lines 178-241) on the two task results
AfterJoin(p, frames_result, transcript_result) ==
    IF ~frames_result.ok THEN Failure(frames_result.error)
    ELSE IF /\ p.config.enable_scene_detection
            /\ frames_result.value # <<>>
            /\ p.env.detect_scene_changes # "Ok"
         THEN Failure(p.env.detect_scene_changes)
    ELSE IF transcript_result.ok
         THEN IF transcript_result.value # <<>>
              THEN Success(frames_result.value, transcript_result.value, FALSE)
              ELSE Success(frames_result.value, <<>>, ~p.metadata.has_audio)
    ELSE IF is_no_audio(transcript_result.error)
         THEN Success(frames_result.value, <<>>, TRUE)
    ELSE Failure(transcript_result.error)

\* outcomes of the environment's operations
MetadataOutcomes == {"Ok", "FfprobeNotFound"}
ExtractOutcomes == {Ok(<<>>), Ok(<<1, 2>>), Err("FfmpegError")}
TranscribeOutcomes == {"Ok", "NoAudioStream", "TranscriptionFailed"}
SceneOutcomes == {"Ok", "ImageReadError"}

PipelineConfigs ==
    [transcription : BOOLEAN, skip_transcription : BOOLEAN,
     enable_scene_detection : BOOLEAN]

InitPipeline ==
    /\ pipeline \in
         [env : [get_video_metadata : MetadataOutcomes,
                 has_audio : BOOLEAN,
                 extract_frames : ExtractOutcomes,
                 transcribe_video : TranscribeOutcomes,
                 detect_scene_changes : SceneOutcomes],
          config : PipelineConfigs,
          pc : {"metadata"},
          metadata : {[has_audio |-> FALSE]},
          frames_task : {"start"},
          transcript_task : {"start"},
          frames_result : {<<>>},
          transcript_result : {<<>>},
          finished : {<<>>},
          output : {<<>>}]
    /\ embedding = <<>>
    /\ SpreadIdle
    /\ RetrieveIdle
    /\ CallIdle
    /\ ConsolidationIdle

NotPipeline == UNCHANGED <<spreadVars, retrieveVars, callVars, consolidationVars, embedding>>

\* get_video_metadata(video_path).await? (line 120)
GetMetadata ==
    /\ pipeline.pc = "metadata"
    /\ pipeline' =
         IF pipeline.env.get_video_metadata = "Ok"
         THEN [pipeline EXCEPT !.pc = "join",
                               !.metadata = [has_audio |-> pipeline.env.has_audio]]
         ELSE [pipeline EXCEPT !.pc = "returned",
                               !.output = <<Failure(pipeline.env.get_video_metadata)>>]
    /\ NotPipeline

\* the join polls frames_task, which starts extract_frames and waits for it
PollFrames ==
    /\ pipeline.pc = "join"
    /\ pipeline.frames_task = "start"
    /\ pipeline' = [pipeline EXCEPT !.frames_task = "awaiting"]
    /\ NotPipeline

\* extract_frames completes and frames_task returns its result
CompleteFrames ==
    /\ pipeline.pc = "join"
    /\ pipeline.frames_task = "awaiting"
    /\ pipeline' = [pipeline EXCEPT !.frames_task = "done",
                                    !.frames_result = <<pipeline.env.extract_frames>>,
                                    !.finished = Append(@, "frames")]
    /\ NotPipeline

\* the join polls transcript_task, which returns at once or starts
\* transcribe_video and waits for it
PollTranscript ==
    /\ pipeline.pc = "join"
    /\ pipeline.transcript_task = "start"
    /\ pipeline' =
         IF TranscriptTaskReturnsAtOnce(pipeline)
         THEN [pipeline EXCEPT !.transcript_task = "done",
                               !.transcript_result = <<Ok(<<>>)>>,
                               !.finished = Append(@, "transcript")]
         ELSE [pipeline EXCEPT !.transcript_task = "awaiting"]
    /\ NotPipeline

\* transcribe_video completes and transcript_task returns its result
CompleteTranscript ==
    /\ pipeline.pc = "join"
    /\ pipeline.transcript_task = "awaiting"
    /\ pipeline' = [pipeline EXCEPT
                       !.transcript_task = "done",
                       !.transcript_result =
                           <<TranscriptTaskResult(pipeline.env.transcribe_video)>>,
                       !.finished = Append(@, "transcript")]
    /\ NotPipeline

\* a join that hands over as soon as one task has returned an error
JoinReadyOnError(p) ==
    \/ p.frames_task = "done" /\ p.transcript_task = "done"
    \/ p.frames_result # <<>> /\ ~p.frames_result[1].ok
    \/ p.transcript_result # <<>> /\ ~p.transcript_result[1].ok

\* the join may hand over once both tasks have returned
JoinReady(p) == p.frames_task = "done" /\ p.transcript_task = "done"

\* the result a task handed to the join (nothing from a task still running)
Taken(task_result) == IF task_result # <<>> THEN task_result[1] ELSE Ok(<<>>)

\* tokio::join! hands both results over and the rest of the function runs
Join ==
    /\ pipeline.pc = "join"
    /\ JoinReady(pipeline)
    /\ pipeline' =
         [pipeline EXCEPT
             !.pc = "returned",
             !.output = <<AfterJoin(pipeline, Taken(pipeline.frames_result),
                                    Taken(pipeline.transcript_result))>>]
    /\ NotPipeline

NextPipeline ==
    \/ GetMetadata
    \/ PollFrames
    \/ CompleteFrames
    \/ PollTranscript
    \/ CompleteTranscript
    \/ Join

SpecPipeline == InitPipeline /\ [][NextPipeline]_vars

PipelineReturned == pipeline # <<>> /\ pipeline.pc = "returned"

\* transcribe_video ran and ended with NoAudioStream
TranscriptionEndedNoAudio ==
    /\ PipelineReturned
    /\ pipeline.transcript_result # <<>>
    /\ ~TranscriptTaskReturnsAtOnce(pipeline)
    /\ pipeline.env.transcribe_video = "NoAudioStream"

\* C21: whenever transcription ends with NoAudioStream and frame extraction
\* succeeds, process_video returns success with the extracted frames, a null
\* transcript and no_audio = true.
C21_NoAudioIsSoft ==
    (TranscriptionEndedNoAudio /\ pipeline.env.extract_frames.ok) =>
        /\ pipeline.output[1].status = "ok"
        /\ pipeline.output[1].frames = pipeline.env.extract_frames.value
        /\ pipeline.output[1].transcript = <<>>
        /\ pipeline.output[1].no_audio

\* the outcome as a function of the configuration and of what the
\* environment's operations answer, whatever the order of completion
OutcomeOf(p) ==
    AfterJoin(p, p.env.extract_frames,
              IF TranscriptTaskReturnsAtOnce(p) THEN Ok(<<>>)
              ELSE TranscriptTaskResult(p.env.transcribe_video))

\* C30: process_video returns only after both tasks have finished, its
\* outcome is the same for every interleaving and completion order of the
\* two tasks, and a frame extraction failure fails the call even when
\* transcription succeeded.
C30_JoinedOutcome ==
    (PipelineReturned /\ pipeline.env.get_video_metadata = "Ok") =>
        /\ pipeline.frames_task = "done"
        /\ pipeline.transcript_task = "done"
        /\ pipeline.output[1] = OutcomeOf(pipeline)
        /\ ~pipeline.env.extract_frames.ok =>
               /\ pipeline.output[1].status = "err"
               /\ pipeline.output[1].error = pipeline.env.extract_frames.error

\* a call whose transcription succeeded first and whose frame extraction
\* failed afterwards
C30_Witness ==
    /\ PipelineReturned
    /\ pipeline.finished = <<"transcript", "frames">>
    /\ ~TranscriptTaskReturnsAtOnce(pipeline)
    /\ pipeline.env.transcribe_video = "Ok"
    /\ ~pipeline.env.extract_frames.ok
    /\ pipeline.output[1].status = "err"

-----------------------------------------------------------------------------
(* lucid-napi lib.rs and lucid-core embedding.rs: the process-wide         *)
(* embedding model.  EMBEDDING_MODEL is a OnceLock, whose get and set are  *)
(* atomic; the model's session sits behind a Mutex.  Threads are the       *)
(* callers of the exported functions.                                      *)

\* threads calling into the library
NumThreads == 2
\* calls made by one thread
MaxCalls == 2

Threads == 1 .. NumThreads

InitEmbedding ==
    /\ embedding \in
         [files_exist : BOOLEAN,                \* the model files are on disk
          model : {<<>>},                      \* EMBEDDING_MODEL
          loads : {0},                         \* models built from disk so far
          session : {<<>>},                    \* the thread holding session.lock()
          at : {[t \in Threads |-> "idle"]},   \* position of each thread
          built : {[t \in Threads |-> <<>>]},  \* the model a thread has built
          returned : {[t \in Threads |-> ""]}, \* what its last call returned
          calls : {[t \in Threads |-> 0]}]
    /\ pipeline = <<>>
    /\ SpreadIdle
    /\ RetrieveIdle
    /\ CallIdle
    /\ ConsolidationIdle

NotEmbedding == UNCHANGED <<spreadVars, retrieveVars, callVars, consolidationVars, pipeline>>

\* a thread enters load_embedding_model
CallLoad(t) ==
    /\ embedding.at[t] = "idle"
    /\ embedding.calls[t] < MaxCalls
    /\ embedding' = [embedding EXCEPT !.at[t] = "load_get",
                                      !.returned[t] = "",
                                      !.calls[t] = @ + 1]
    /\ NotEmbedding

\* if EMBEDDING_MODEL.get().is_some() { return Ok(true); }
LoadGet(t) ==
    /\ embedding.at[t] = "load_get"
    /\ embedding' =
         IF embedding.model # <<>>
         THEN [embedding EXCEPT !.at[t] = "idle", !.returned[t] = "Ok(true)"]
         ELSE [embedding EXCEPT !.at[t] = "load_build"]
    /\ NotEmbedding

\* EmbeddingModel::load(&config): the model is built from the files
LoadBuild(t) ==
    /\ embedding.at[t] = "load_build"
    /\ embedding' =
         IF embedding.files_exist
         THEN [embedding EXCEPT !.at[t] = "load_set",
                                !.loads = @ + 1,
                                !.built[t] = <<embedding.loads + 1>>]
         ELSE [embedding EXCEPT !.at[t] = "idle", !.returned[t] = "Err"]
    /\ NotEmbedding

\* let _ = EMBEDDING_MODEL.set(model); Ok(true)
LoadSet(t) ==
    /\ embedding.at[t] = "load_set"
    /\ embedding' =
         [embedding EXCEPT !.at[t] = "idle",
                           !.returned[t] = "Ok(true)",
                           !.built[t] = <<>>,
                           !.model = IF @ = <<>> THEN embedding.built[t] ELSE @]
    /\ NotEmbedding

\* a thread enters embed: EMBEDDING_MODEL.get().ok_or_else(..)?
CallEmbed(t) ==
    /\ embedding.at[t] = "idle"
    /\ embedding.calls[t] < MaxCalls
    /\ embedding' =
         IF embedding.model # <<>>
         THEN [embedding EXCEPT !.at[t] = "lock", !.returned[t] = "",
                                !.calls[t] = @ + 1]
         ELSE [embedding EXCEPT !.returned[t] = "Err", !.calls[t] = @ + 1]
    /\ NotEmbedding

\* run_inference: let mut session = self.session.lock();
Lock(t) ==
    /\ embedding.at[t] = "lock"
    /\ embedding.session = <<>>
    /\ embedding' = [embedding EXCEPT !.at[t] = "inference", !.session = <<t>>]
    /\ NotEmbedding

\* session.run(..) ends, the guard is dropped and embed returns
Unlock(t) ==
    /\ embedding.at[t] = "inference"
    /\ embedding' = [embedding EXCEPT !.at[t] = "idle", !.session = <<>>,
                                      !.returned[t] = "Ok(vector)"]
    /\ NotEmbedding

NextEmbedding ==
    \E t \in Threads :
        \/ CallLoad(t)
        \/ LoadGet(t)
        \/ LoadBuild(t)
        \/ LoadSet(t)
        \/ CallEmbed(t)
        \/ Lock(t)
        \/ Unlock(t)

SpecEmbedding == InitEmbedding /\ [][NextEmbedding]_vars

\* C22: across any interleaving of concurrent load_embedding_model calls the
\* model is built from disk at most once, and at most one inference call
\* holds the session at any time.
C22_BuiltOnce ==
    embedding # <<>> =>
        /\ embedding.loads <= 1
        /\ Cardinality({t \in Threads : embedding.at[t] = "inference"}) <= 1

-----------------------------------------------------------------------------
(* Fan-normalised emission of spread_activation *)

\* the emissions node u makes along the edges on which it is `end`, dividing
\* its activation a by fan
EdgeEmissions(assocs, u, a, fan, backward) ==
    LET edges == SelectSeq(assocs, LAMBDA e : IF backward THEN e.target = u
                                                          ELSE e.source = u)
    IN  [k \in DOMAIN edges |->
            [source |-> u,
             target |-> IF backward THEN edges[k].source ELSE edges[k].target,
             backward |-> backward,
             amount |->
                 LET w == IF backward THEN edges[k].backward_strength
                                      ELSE edges[k].forward_strength
                     forward_amount == RMul(RMul(RDivInt(a, fan), w), config.decay_per_hop)
                 IN  IF backward THEN RMul(forward_amount, <<7, 10>>)
                                 ELSE forward_amount]]

Count(assocs, u, backward) ==
    Len(SelectSeq(assocs, LAMBDA e : IF backward THEN e.target = u ELSE e.source = u))

Max1(n) == IF n > 1 THEN n ELSE 1

\* what the frontier fr emits in one pass from the activations acts when
\* each node divides by same_fan (its forward fan in both directions) or by
\* the fan of the direction it emits in
RECURSIVE FrontierEmissions(_, _, _, _)
FrontierEmissions(fr, acts, assocs, same_fan) ==
    IF fr = <<>> THEN <<>>
    ELSE LET u == Head(fr)
             rest == FrontierEmissions(Tail(fr), acts, assocs, same_fan)
             f == Max1(Count(assocs, u, FALSE))
             b == IF same_fan THEN f ELSE Max1(Count(assocs, u, TRUE))
         IN  IF RLt(acts[u], config.minimum_activation) THEN rest
             ELSE EdgeEmissions(assocs, u, acts[u], f, FALSE)
                  \o (IF config.bidirectional
                      THEN EdgeEmissions(assocs, u, acts[u], b, TRUE) ELSE <<>>)
                  \o rest

\* the emissions a pass made, as source, target, direction and amount
Emitted(ems) ==
    [k \in DOMAIN ems |->
        [source |-> ems[k].source, target |-> ems[k].target,
         backward |-> ems[k].backward, amount |-> ems[k].amount]]

IsPrefix(p, q) == Len(p) <= Len(q) /\ p = SubSeq(q, 1, Len(p))

\* C23 as stated: in a pass every frontier node u with activation
\* a >= minimum_activation adds (a / f) * w * decay_per_hop along each forward
\* edge, f = max(1, number of forward edges of u), and with bidirectional
\* spreading (a / f) * backward strength * decay_per_hop * 0.7 along each
\* backward edge, with the same f.
C23_SameFan ==
    [][(Pass /\ pc' # "panicked") =>
          Emitted(emissions') =
              FrontierEmissions(frontier, activations,
                                InRangeAssociations(associations, NumNodes), TRUE)]_vars

\* C23 amended: the backward amount divides by the number of backward edges
\* of u, and the edges emit in order until the visit cap is reached: the
\* emissions of a pass are a prefix of the fan-normalised emissions of the
\* frontier, and all of them when the pass ends below max_nodes.
C23_FanPerDirection ==
    [][(Pass /\ pc' # "panicked") =>
          LET all == FrontierEmissions(frontier, activations,
                                       InRangeAssociations(associations, NumNodes), FALSE)
          IN  /\ IsPrefix(Emitted(emissions'), all)
              /\ total_visited' < config.max_nodes => Emitted(emissions') = all]_vars

\* a pass in which a node with one forward edge at most and two backward
\* edges emitted backwards
C23_Witness ==
    /\ pc # "panicked"
    /\ iter >= 1
    /\ \E k \in DOMAIN emissions :
          /\ emissions[k].backward
          /\ emissions[k].fan = 2
          /\ emissions[k].amount # Zero
          /\ Count(InRangeAssociations(associations, NumNodes),
                   emissions[k].source, FALSE) <= 1

-----------------------------------------------------------------------------
(* spreading.rs: find_activation_path, a breadth-first search *)

\* usize::MAX, the parent of a node that has none
UsizeMax == UsizeRange - 1

\* the locals of the search: visited and parent are indexed 0..num_nodes-1,
\* found is set by the return inside the loops
SearchStart(n, source) ==
    [visited |-> [i \in 0 .. (n - 1) |-> i = source],
     parent |-> [i \in 0 .. (n - 1) |-> UsizeMax],
     queue |-> <<source>>,
     found |-> FALSE]

\* `for &(neighbor, _) in &forward_adj[current]` (lines 243-262)
RECURSIVE VisitNeighbors(_, _, _, _)
VisitNeighbors(edges, current, target, st) ==
    IF edges = <<>> \/ st.found THEN st
    ELSE LET neighbor == Head(edges)[1]
         IN  VisitNeighbors(
                 Tail(edges), current, target,
                 IF st.visited[neighbor] THEN st
                 ELSE [st EXCEPT !.visited[neighbor] = TRUE,
                                 !.parent[neighbor] = current,
                                 !.queue = Append(@, neighbor),
                                 !.found = (neighbor = target)])

\* `while let Some(current) = queue.pop_front()` (line 242)
RECURSIVE Search(_, _, _)
Search(st, forward_adj, target) ==
    IF st.found \/ st.queue = <<>> THEN st
    ELSE LET current == Head(st.queue)
         IN  Search(VisitNeighbors(forward_adj[current], current, target,
                                   [st EXCEPT !.queue = Tail(@)]),
                    forward_adj, target)

\* the path rebuilt by following parent from the target, reversed
RECURSIVE PathTo(_, _)
PathTo(node, parent) ==
    IF node = UsizeMax THEN <<>> ELSE Append(PathTo(parent[node], parent), node)

\* the whole call; `visited[source] = true` (line 239) panics for a source
\* that is not below num_nodes
find_activation_path(n, assocs, source, target) ==
    LET st == Search(SearchStart(n, source), build_adjacency(assocs, n).forward, target)
    IN  IF source = target THEN Selection(<<source>>)
        ELSE IF source >= n THEN Panicked
        ELSE IF st.found THEN Selection(PathTo(target, st.parent))
        ELSE Selection(<<>>)

\* most edges of a graph searched for a path
MaxPathEdges == 3

\* a chain 0 -> 1 -> 2, a shortcut 0 -> 2, a back edge 2 -> 0 and an edge
\* that leaves the graph
PathEdgePool ==
    {Association(0, 1, One, Half),
     Association(1, 2, One, Half),
     Association(0, 2, One, Half),
     Association(2, 0, One, Half),
     Association(1, NumNodes, One, Half)}

InitPath ==
    /\ call \in [fn : {"find_activation_path"},
                 associations : SeqsUpTo(PathEdgePool, MaxPathEdges),
                 source : 0 .. NumNodes,
                 target : 0 .. NumNodes]
    /\ Pending
    /\ SpreadIdle
    /\ RetrieveIdle
    /\ ConsolidationIdle
    /\ ProcessIdle

FindPath ==
    /\ call.fn = "find_activation_path"
    /\ Pending
    /\ Returns(find_activation_path(NumNodes, call.associations, call.source, call.target))
    /\ OnlyCall

NextPath == FindPath

SpecPath == InitPath /\ [][NextPath]_vars

\* the nodes within k forward edges of the set S
RECURSIVE Within(_, _, _)
Within(S, assocs, k) ==
    IF k = 0 THEN S
    ELSE Within(S \cup {assocs[i].target : i \in {j \in DOMAIN assocs : assocs[j].source \in S}},
                assocs, k - 1)

\* the least number of forward edges from source to target, or -1
Distance(assocs, source, target) ==
    LET ks == {k \in 0 .. NumNodes : target \in Within({source}, assocs, k)}
    IN  IF ks = {} THEN -1 ELSE CHOOSE k \in ks : \A l \in ks : k <= l

IsForwardPath(path, assocs) ==
    \A k \in 1 .. (Len(path) - 1) :
        \E i \in DOMAIN assocs :
            assocs[i].source = path[k] /\ assocs[i].target = path[k + 1]

PathCalled == call # <<>> /\ call.fn = "find_activation_path" /\ ~Pending

\* what the claim asks of a returned path
ShortestPath(path, assocs, source, target) ==
    LET d == Distance(assocs, source, target)
    IN  IF source = target THEN path = <<source>>
        ELSE IF d = -1 THEN path = <<>>
        ELSE /\ Len(path) = d + 1
             /\ path[1] = source
             /\ path[Len(path)] = target
             /\ IsForwardPath(path, assocs)

\* C24: for any graph, source and target, find_activation_path never fails
\* and returns [source] when source = target, the empty list when the target
\* is unreachable along forward edges, and otherwise a path from source to
\* target along forward edges with the least number of edges.
C24_ShortestPath ==
    PathCalled =>
        /\ result[1].status = "returned"
        /\ ShortestPath(result[1].value,
                        InRangeAssociations(call.associations, NumNodes),
                        call.source, call.target)

-----------------------------------------------------------------------------
(* visual.rs: retrieve_visual *)

\* VisualRetrievalConfig::default()
DefaultVisualRetrievalConfig ==
    [decay_rate |-> Half,
     activation_threshold |-> <<3, 10>>,
     noise_parameter |-> <<1, 10>>,
     spreading_depth |-> 3,
     spreading_decay |-> <<7, 10>>,
     min_probability |-> <<1, 10>>,
     max_results |-> 10,
     bidirectional |-> TRUE,
     emotional_boost |-> <<3, 10>>,
     significance_boost |-> <<1, 5>>]

\* step 4: (base + probe_activations[i]) * emotional_multiplier
VisualInitialActivation(base_level, probe_activation, emotional) ==
    RMul(RAdd(EffectiveBase(base_level), probe_activation),
         EmotionalMultiplier(emotional))

\* step 5: the traces of positive initial activation, best first, at most 5
VisualSeeds(initial) ==
    LET unsorted == SelectSeq([k \in DOMAIN initial |-> <<k - 1, initial[k]>>],
                              LAMBDA p : RLt(Zero, p[2]))
        order == sort_by_descending(Collect([k \in DOMAIN unsorted |-> unsorted[k][2]]))
    IN  Truncate(Collect([k \in DOMAIN order |-> unsorted[order[k]]]), SeedCap)

\* the VisualRetrievalCandidate of trace i, before the probability filter
VisualCandidate(i, base_level, probe_activation, spreading, emotion, significance, cfg) ==
    LET significance_boost == RMul(significance, cfg.significance_boost)
        emotional_boost == IF RLt(<<7, 10>>, emotion)
                           THEN RMul(RSub(emotion, <<7, 10>>), cfg.emotional_boost)
                           ELSE Zero
        breakdown == combine_activations(base_level, probe_activation, spreading,
                                         emotion)
        boosted_total == RAdd(RAdd(breakdown.total, significance_boost), emotional_boost)
    IN  [index |-> i,
         base_level |-> breakdown.base_level,
         probe_activation |-> breakdown.probe_activation,
         spreading |-> breakdown.spreading,
         emotional_weight |-> breakdown.emotional_weight,
         significance_boost |-> RAdd(significance_boost, emotional_boost),
         total_activation |-> boosted_total,
         probability |-> retrieval_probability(boosted_total,
                                               cfg.activation_threshold,
                                               cfg.noise_parameter)]

\* steps 7 and 8
VisualRank(n, base_levels, probe_acts, spreading, inp, cfg) ==
    LET all == [k \in 1 .. n |->
                   VisualCandidate(k - 1, EffectiveBase(base_levels[k]), probe_acts[k],
                                   spreading[k - 1],
                                   Get(inp.emotional_weights, k - 1, Half),
                                   Get(inp.significance_scores, k - 1, Half), cfg)]
        kept == SelectSeq(all, LAMBDA c :
                    ~ProbabilityBelow(c.probability, cfg.min_probability))
        order == sort_by_descending(Collect([k \in DOMAIN kept |->
                                                kept[k].total_activation]))
    IN  Truncate(Collect([k \in DOMAIN order |-> kept[order[k]]]), cfg.max_results)

\* the whole call; pc = "panicked" stands for a call that does not return
retrieve_visual(inp, cfg) ==
    LET n == Len(inp.memory_embeddings)
        similarities == cosine_similarity_batch(inp.probe_embedding,
                                                inp.memory_embeddings)
        probe_acts == nonlinear_activation_batch(similarities)
        base_levels == Collect([k \in DOMAIN inp.access_histories_ms |->
                           compute_base_level(inp.access_histories_ms[k],
                                              inp.current_time_ms, cfg.decay_rate)])
        initial == Collect([k \in 1 .. n |->
                       VisualInitialActivation(base_levels[k], probe_acts[k],
                                               Get(inp.emotional_weights, k - 1, Half))])
        sds == VisualSeeds(initial)
        spreading == SpreadingResult(n, inp.associations, sds, cfg)
    IN  IF n = 0 THEN [pc |-> "done", seeds |-> <<>>, candidates |-> <<>>]
        ELSE IF Len(inp.access_histories_ms) < n
        THEN \* base_levels[i] is indexed out of bounds in step 4
             [pc |-> "panicked", seeds |-> <<>>, candidates |-> <<>>]
        ELSE [pc |-> "done", seeds |-> sds,
              candidates |-> VisualRank(n, base_levels, probe_acts, spreading, inp, cfg)]

SignificanceScores == {<<>>, <<One>>}

VisualInputs(n) ==
    [probe_embedding : {ProbeEmbedding},
     memory_embeddings : [1 .. n -> EmbeddingPool],
     access_histories_ms : AccessHistories(n, 1000000),
     emotional_weights : EmotionalWeights(n),
     significance_scores : SignificanceScores,
     associations : AssociationLists,
     current_time_ms : {1000000}]

\* the default configuration, and the one without the two visual boosts
VisualRetrievalConfigs ==
    {DefaultVisualRetrievalConfig,
     [DefaultVisualRetrievalConfig EXCEPT !.emotional_boost = Zero,
                                          !.significance_boost = Zero]}

InitVisual ==
    /\ \E n \in 1 .. MaxTraces :
           call \in [fn : {"retrieve_visual"},
                     input : VisualInputs(n),
                     config : VisualRetrievalConfigs]
    /\ Pending
    /\ SpreadIdle
    /\ RetrieveIdle
    /\ ConsolidationIdle
    /\ ProcessIdle

RetrieveVisual ==
    /\ call.fn = "retrieve_visual"
    /\ Pending
    /\ Returns(retrieve_visual(call.input, call.config))
    /\ OnlyCall

NextVisual == RetrieveVisual

SpecVisual == InitVisual /\ [][NextVisual]_vars

\* the arguments of retrieve for the same store: all boosts 1.0 and all
\* decay rates config.decay_rate
GeneralInput(inp, cfg) ==
    [probe_embedding |-> inp.probe_embedding,
     memory_embeddings |-> inp.memory_embeddings,
     access_histories_ms |-> inp.access_histories_ms,
     emotional_weights |-> inp.emotional_weights,
     decay_rates |-> Repeat(cfg.decay_rate, Len(inp.memory_embeddings)),
     working_memory_boosts |-> Repeat(One, Len(inp.memory_embeddings)),
     associations |-> inp.associations,
     current_time_ms |-> inp.current_time_ms]

GeneralConfig(cfg) ==
    [decay_rate |-> cfg.decay_rate,
     activation_threshold |-> cfg.activation_threshold,
     noise_parameter |-> cfg.noise_parameter,
     spreading_depth |-> cfg.spreading_depth,
     spreading_decay |-> cfg.spreading_decay,
     min_probability |-> cfg.min_probability,
     max_results |-> cfg.max_results,
     bidirectional |-> cfg.bidirectional]

\* index, spreading, total activation and probability of each candidate
Ranking(cands) ==
    [k \in DOMAIN cands |->
        [index |-> cands[k].index, spreading |-> cands[k].spreading,
         total_activation |-> cands[k].total_activation,
         probability |-> cands[k].probability]]

VisualCalled == call # <<>> /\ call.fn = "retrieve_visual" /\ ~Pending

\* C25: with significance_boost = 0 and emotional_boost = 0, retrieve_visual
\* returns the same indices in the same order with the same spreading, total
\* activation and probability as retrieve on the same store with all
\* working-memory boosts 1.0 and all decay rates config.decay_rate.
C25_SameAsRetrieve ==
    (VisualCalled /\ call.config.significance_boost = Zero
        /\ call.config.emotional_boost = Zero /\ result[1].pc = "done") =>
        Ranking(result[1].candidates) =
            Ranking(retrieve(GeneralInput(call.input, call.config),
                             GeneralConfig(call.config)).candidates)

-----------------------------------------------------------------------------
(* The spreading component of a retrieval candidate *)

\* trace i is an end of no association
Unassociated(i) ==
    \A k \in DOMAIN input.associations :
        input.associations[k].source # i /\ input.associations[k].target # i

Totals(cands) ==
    [k \in DOMAIN cands |->
        [index |-> cands[k].index, total_activation |-> cands[k].total_activation]]

\* C26: in the result of retrieve a trace with no association edge incident
\* to it has spreading = 0, for every spreading_depth; with an empty
\* association list the totals are those obtained with spreading_depth = 0.
C26_SpreadingFromAssociations ==
    Returned =>
        /\ \A k \in DOMAIN candidates :
               Unassociated(candidates[k].index) => candidates[k].spreading = Zero
        /\ input.associations = <<>> =>
               Totals(candidates) =
                   Totals(retrieve(input, [rconfig EXCEPT !.spreading_depth = 0]).candidates)

-----------------------------------------------------------------------------
(* Monotonicity of decay *)

DecayCalled == call # <<>> /\ call.fn = "compute_decayed_familiarity" /\ ~Pending

\* C27: compute_decayed_familiarity returns at most the current familiarity,
\* for every familiarity in [0, 1] and every pair of timestamps, and so does
\* the next invocation on the value it returned.
C27_DecayNeverRaises ==
    DecayCalled =>
        /\ RLe(result[1], call.current_familiarity)
        /\ RLe(compute_decayed_familiarity(result[1], call.last_accessed_ms,
                                           call.current_time_ms, call.is_pinned,
                                           call.config),
               result[1])

-----------------------------------------------------------------------------
(* should_prune against compute_pruning_candidates *)

\* should_prune on memory i of the list, with is_keyframe taken as
\* frame_number = Some(0)
ShouldPruneMemory(i) ==
    should_prune(call.memories[i + 1].significance, MemoryDays(i),
                 call.memories[i + 1].is_pinned,
                 call.memories[i + 1].frame_number = <<0>>, call.config)

Reported(i) == \E k \in DOMAIN result[1] : result[1][k].index = i

\* C28: with is_keyframe meaning frame_number = Some(0), every memory for which
\* should_prune is true under a configuration and a current time has its index
\* among the candidates compute_pruning_candidates returns for a list holding
\* it, under the same configuration and time.
C28_PrunedIsCandidate ==
    ~Pending /\ call.fn = "compute_pruning_candidates" =>
        \A i \in 0 .. (Len(call.memories) - 1) :
            ShouldPruneMemory(i) => Reported(i)

\* a memory of significance 0.4 last accessed 181 days ago, which only the
\* very-stale test of should_prune accepts, is reported, after a memory that
\* should_prune rejects
C28_Witness ==
    /\ ~Pending
    /\ call.fn = "compute_pruning_candidates"
    /\ Len(call.memories) = 2
    /\ ~ShouldPruneMemory(0)
    /\ ShouldPruneMemory(1)
    /\ call.memories[2].significance = <<2, 5>>
    /\ ReportedAs(1, "Stale")

-----------------------------------------------------------------------------
(* The consolidation state under start_consolidation and update *)

InUnitInterval(x) == x # RNaN /\ RLe(Zero, x) /\ RLe(x, One)

\* the step is an update, with a window present, at or after the window's end
UpdateAtOrAfterEnd ==
    /\ consolidation.window # <<>>
    /\ F64Ge(clock', consolidation.window[1].ends_at_ms)
    /\ consolidation' = update(consolidation, clock')

\* C29: after any sequence of start_consolidation and update calls a window is
\* present exactly when the state is Consolidating and strength is in [0,1],
\* and an update at or after the window's end leaves state Consolidated,
\* strength 1.0 and no window.
C29_WindowAndStrength ==
    /\ [](/\ consolidation.window # <<>> <=> consolidation.state = "Consolidating"
          /\ InUnitInterval(consolidation.strength))
    /\ [][UpdateAtOrAfterEnd
              => /\ consolidation'.state = "Consolidated"
                 /\ consolidation'.strength = One
                 /\ consolidation'.window = <<>>]_vars

====
